---- MODULE Spec2Model ----
(***************************************************************************)
(* A model of CardGener's document/layout core:                            *)
(*   - the document tree (card template, cards cloned from it) and the     *)
(*     field lookup/update operations of simple_generator.py,              *)
(*     card_generator.py, mcp_server.py and ai_image_generator.py;         *)
(*   - the grid compositor and the sheet pagination of image_stitcher.py.  *)
(*                                                                         *)
(* Python dicts are heap objects: the heap is a sequence of node records   *)
(* and a node's children are heap addresses, so that aliasing between a    *)
(* template and the cards made from it is visible.  Python strings are     *)
(* TLA+ strings; a missing dict key is the value Absent.                   *)
(***************************************************************************)
EXTENDS Integers, Sequences, FiniteSets, TLC

VARIABLES
    heap,           \* the Python heap: heap[a] is the dict at address a
    template,       \* address of template['data'] (0: nothing loaded)
    template_file,  \* the tree stored in template.json
    cards,          \* addresses of card['data'] of the cards generated so far
    last,           \* the last call on the tree: operation, arguments, heap before, result
    calls,          \* number of calls made in the document lifecycle
    stitch,         \* the last stitch_images call: arguments and everything it did
    deck,           \* the last create_tabletop_simulator_deck call
    again,          \* stitch_images applied once more to the sheet it saved
    overlay,        \* the last overlay of an art image on a card image
    batch,          \* the last overlay_generated_art call
    auto,           \* the last auto_stitch call
    helper,         \* the last run of a batch helper (generation, AI artwork)
    schema,         \* card_schema.json and the last update_card_schema reply
    gui             \* the GUI: is_processing, the status bar, the threads started

vars == <<heap, template, template_file, cards, last, calls, stitch, deck, again, overlay, batch, auto, helper, schema, gui>>

----------------------------------------------------------------------------
(* Bounds of the model *)

\* largest number of nodes of a tree a single operation is applied to
MaxNodes == 3
\* largest number of cards generated from one template
MaxCards == 2
\* largest number of calls in one document lifecycle
MaxCalls == 3
\* largest number of image paths given to stitch_images
MaxImages == 3
\* largest rows, cols and spacing given to stitch_images
MaxRows == 2
MaxCols == 3
MaxSpacing == 1
\* largest number of image paths, cards per sheet and columns given to
\* create_tabletop_simulator_deck
MaxDeckImages == 5
MaxCardsPerSheet == 4
MaxDeckCols == 3
\* largest number of records in one batch (rows, cards, JSON files)
MaxRecords == 3
\* largest number of requests made to the GUI
MaxRequests == 3

----------------------------------------------------------------------------
(* Python strings *)

\* a dict key that is not there (dict.get returns None)
Absent == "<absent>"

LowerChars == "abcdefghijklmnopqrstuvwxyz"
UpperChars == "ABCDEFGHIJKLMNOPQRSTUVWXYZ"

CharAt(s, i) == SubSeq(s, i, i)

RECURSIVE IndexFrom(_, _, _)
\* 1-based position of the one-character string c in s at or after i, 0 if none
IndexFrom(c, s, i) ==
    IF i > Len(s) THEN 0
    ELSE IF CharAt(s, i) = c THEN i
    ELSE IndexFrom(c, s, i + 1)

IsLower(c) == IndexFrom(c, LowerChars, 1) # 0
IsUpper(c) == IndexFrom(c, UpperChars, 1) # 0

CharLower(c) == IF IsUpper(c) THEN CharAt(LowerChars, IndexFrom(c, UpperChars, 1)) ELSE c
CharUpper(c) == IF IsLower(c) THEN CharAt(UpperChars, IndexFrom(c, LowerChars, 1)) ELSE c

RECURSIVE LowerFrom(_, _)
LowerFrom(s, i) ==
    IF i > Len(s) THEN "" ELSE CharLower(CharAt(s, i)) \o LowerFrom(s, i + 1)

\* str.lower()
Lower(s) == LowerFrom(s, 1)

RECURSIVE TitleFrom(_, _, _)
\* str.title(): a cased character is upper-cased when the character before it
\* is not cased, and lower-cased when it is
TitleFrom(s, i, prevCased) ==
    IF i > Len(s) THEN ""
    ELSE LET c == CharAt(s, i)
             cased == IsLower(c) \/ IsUpper(c)
             out == IF ~cased THEN c
                    ELSE IF prevCased THEN CharLower(c) ELSE CharUpper(c)
         IN out \o TitleFrom(s, i + 1, cased)

Title(s) == TitleFrom(s, 1, FALSE)

\* Python's  sub in s
Contains(sub, s) ==
    \E i \in 1..(Len(s) - Len(sub) + 1) : SubSeq(s, i, i + Len(sub) - 1) = sub

----------------------------------------------------------------------------
(* Document trees *)

\* the dicts the model builds trees from: text and image fields and groups
TitleEmpty ==
    [type |-> "text", name |-> "Title", text |-> "", src |-> Absent,
     thumb |-> Absent, hasChildren |-> FALSE]
TitleOld ==
    [type |-> "text", name |-> "Title", text |-> "Old", src |-> Absent,
     thumb |-> Absent, hasChildren |-> FALSE]
ArtImage ==
    [type |-> "image", name |-> "Art", text |-> Absent, src |-> "old.png",
     thumb |-> Absent, hasChildren |-> FALSE]
NinjaFrame ==
    [type |-> "image", name |-> "Ninja Class", text |-> Absent,
     src |-> "fab/frame/classes/ninja.png",
     thumb |-> "fab/frame/classes/thumb-ninja.png", hasChildren |-> FALSE]
Group ==
    [type |-> "group", name |-> Absent, text |-> Absent, src |-> Absent,
     thumb |-> Absent, hasChildren |-> TRUE]
ArtGroup ==
    [type |-> "group", name |-> "Art", text |-> Absent, src |-> Absent,
     thumb |-> Absent, hasChildren |-> TRUE]

Protos == {TitleEmpty, TitleOld, ArtImage, NinjaFrame, Group, ArtGroup}

\* a JSON object: the dict p with the children list kids (the key 'children'
\* is present when p is a container or has children)
MkTree(p, kids) ==
    [type |-> p.type, name |-> p.name, text |-> p.text, src |-> p.src,
     thumb |-> p.thumb, hasChildren |-> (p.hasChildren \/ kids # <<>>),
     children |-> kids]

RECURSIVE TreesOfSize(_), ForestsOfSize(_)
\* the JSON trees of exactly n nodes
TreesOfSize(n) ==
    IF n < 1 THEN {}
    ELSE { MkTree(p, f) : p \in Protos, f \in ForestsOfSize(n - 1) }

\* the lists of JSON trees of n nodes in all
ForestsOfSize(n) ==
    IF n = 0 THEN { <<>> }
    ELSE UNION { { <<t>> \o f : t \in TreesOfSize(k), f \in ForestsOfSize(n - k) }
                 : k \in 1..n }

TreesUpTo(n) == UNION { TreesOfSize(k) : k \in 1..n }

\* the templates of the document lifecycle: a flat one, a nested one with a
\* repeated field and an image that has a child, a single field, an empty group
Templates ==
    { MkTree(Group, << MkTree(TitleOld, <<>>), MkTree(ArtImage, <<>>),
                       MkTree(NinjaFrame, <<>>) >>),
      MkTree(Group, << MkTree(Group, << MkTree(TitleEmpty, <<>>),
                                        MkTree(TitleOld, <<>>) >>),
                       MkTree(NinjaFrame, << MkTree(ArtImage, <<>>) >>) >>),
      MkTree(TitleOld, <<>>),
      MkTree(Group, <<>>) }

RECURSIVE Alloc(_, _), AllocKids(_, _, _, _)
\* json.load / json.loads: builds fresh dicts for the JSON tree v on heap h
Alloc(h, v) ==
    LET a == Len(h) + 1
        h1 == Append(h, [type |-> v.type, name |-> v.name, text |-> v.text,
                         src |-> v.src, thumb |-> v.thumb,
                         hasChildren |-> v.hasChildren, children |-> <<>>])
        r == AllocKids(h1, v.children, 1, <<>>)
    IN [heap |-> [r.heap EXCEPT ![a].children = r.addrs], root |-> a]

AllocKids(h, vs, i, acc) ==
    IF i > Len(vs) THEN [heap |-> h, addrs |-> acc]
    ELSE LET r == Alloc(h, vs[i])
         IN AllocKids(r.heap, vs, i + 1, Append(acc, r.root))

RECURSIVE Dump(_, _), DumpKids(_, _, _)
\* json.dumps: the JSON tree of the dict at address a
Dump(h, a) ==
    [type |-> h[a].type, name |-> h[a].name, text |-> h[a].text, src |-> h[a].src,
     thumb |-> h[a].thumb, hasChildren |-> h[a].hasChildren,
     children |-> DumpKids(h, h[a].children, 1)]

DumpKids(h, cs, i) ==
    IF i > Len(cs) THEN <<>> ELSE <<Dump(h, cs[i])>> \o DumpKids(h, cs, i + 1)

\* load_template
load_template(h, file) == Alloc(h, file)

----------------------------------------------------------------------------
(* Field update and lookup *)

RECURSIVE update_field(_, _, _, _, _), update_field_children(_, _, _, _, _, _)
RECURSIVE update_field_children_all(_, _, _, _, _, _)
\* update_field's loop without the early return: every child is visited
update_field_children_all(h, cs, i, field_type, field_name, value) ==
    IF i > Len(cs) THEN [heap |-> h, found |-> FALSE]
    ELSE LET r == update_field(h, cs[i], field_type, field_name, value)
             rest == update_field_children_all(r.heap, cs, i + 1, field_type,
                                               field_name, value)
         IN [heap |-> rest.heap, found |-> r.found \/ rest.found]

\* update_field's loop returning the first child's result whatever it is
update_field_children_first(h, cs, i, field_type, field_name, value) ==
    IF i > Len(cs) THEN [heap |-> h, found |-> FALSE]
    ELSE update_field(h, cs[i], field_type, field_name, value)

\* update_field(data, field_type, field_name, value): [heap, found]
update_field(h, a, field_type, field_name, value) ==
    IF h[a].type = field_type /\ h[a].name = field_name
    THEN [heap |-> IF field_type = "text" THEN [h EXCEPT ![a].text = value]
                   ELSE IF field_type = "image" THEN [h EXCEPT ![a].src = value]
                   ELSE h,
          found |-> TRUE]
    ELSE IF h[a].hasChildren
    THEN update_field_children(h, h[a].children, 1, field_type, field_name, value)
    ELSE [heap |-> h, found |-> FALSE]

\* the loop over data['children'], from the i-th child on
update_field_children(h, cs, i, field_type, field_name, value) ==
    IF i > Len(cs) THEN [heap |-> h, found |-> FALSE]
    ELSE LET r == update_field(h, cs[i], field_type, field_name, value)
         IN IF r.found THEN r
            ELSE update_field_children(r.heap, cs, i + 1, field_type, field_name, value)

RECURSIVE update_text_field(_, _, _, _), update_text_field_children(_, _, _, _, _)
\* CardGenerator.update_text_field
update_text_field(h, a, field_name, value) ==
    IF h[a].type = "text" /\ h[a].name = field_name
    THEN [heap |-> [h EXCEPT ![a].text = value], found |-> TRUE]
    ELSE IF h[a].hasChildren
    THEN update_text_field_children(h, h[a].children, 1, field_name, value)
    ELSE [heap |-> h, found |-> FALSE]

update_text_field_children(h, cs, i, field_name, value) ==
    IF i > Len(cs) THEN [heap |-> h, found |-> FALSE]
    ELSE LET r == update_text_field(h, cs[i], field_name, value)
         IN IF r.found THEN r
            ELSE update_text_field_children(r.heap, cs, i + 1, field_name, value)

RECURSIVE update_image_field(_, _, _, _), update_image_field_children(_, _, _, _, _)
\* CardGenerator.update_image_field
update_image_field(h, a, field_name, value) ==
    IF h[a].type = "image" /\ h[a].name = field_name
    THEN [heap |-> [h EXCEPT ![a].src = value], found |-> TRUE]
    ELSE IF h[a].hasChildren
    THEN update_image_field_children(h, h[a].children, 1, field_name, value)
    ELSE [heap |-> h, found |-> FALSE]

update_image_field_children(h, cs, i, field_name, value) ==
    IF i > Len(cs) THEN [heap |-> h, found |-> FALSE]
    ELSE LET r == update_image_field(h, cs[i], field_name, value)
         IN IF r.found THEN r
            ELSE update_image_field_children(r.heap, cs, i + 1, field_name, value)

\* data.get('name', '')
NameOr(h, a) == IF h[a].name = Absent THEN "" ELSE h[a].name

RECURSIVE update_class_frame(_, _, _), update_class_frame_children(_, _, _, _)
RECURSIVE update_class_frame_children_all(_, _, _, _)
\* update_class_frame writing the class name as given, without lower()
update_class_frame_as_given(h, a, class_type) ==
    IF h[a].type = "image" /\ Contains("Class", NameOr(h, a))
    THEN [heap |-> [h EXCEPT
                      ![a].src = "fab/frame/classes/" \o class_type \o ".png",
                      ![a].thumb = "fab/frame/classes/thumb-" \o class_type \o ".png",
                      ![a].name = Title(class_type) \o " Class"],
          found |-> TRUE]
    ELSE IF h[a].hasChildren
    THEN update_class_frame_children(h, h[a].children, 1, class_type)
    ELSE [heap |-> h, found |-> FALSE]

\* update_class_frame(data, class_type)
update_class_frame(h, a, class_type) ==
    IF h[a].type = "image" /\ Contains("Class", NameOr(h, a))
    THEN [heap |-> [h EXCEPT
                      ![a].src = "fab/frame/classes/" \o Lower(class_type) \o ".png",
                      ![a].thumb = "fab/frame/classes/thumb-" \o Lower(class_type) \o ".png",
                      ![a].name = Title(class_type) \o " Class"],
          found |-> TRUE]
    ELSE IF h[a].hasChildren
    THEN update_class_frame_children(h, h[a].children, 1, class_type)
    ELSE [heap |-> h, found |-> FALSE]

\* the loop over data['children'] going on after a child reported a match
update_class_frame_children_all(h, cs, i, class_type) ==
    IF i > Len(cs) THEN [heap |-> h, found |-> FALSE]
    ELSE LET r == update_class_frame(h, cs[i], class_type)
             rest == update_class_frame_children_all(r.heap, cs, i + 1, class_type)
         IN [heap |-> rest.heap, found |-> r.found \/ rest.found]

update_class_frame_children(h, cs, i, class_type) ==
    IF i > Len(cs) THEN [heap |-> h, found |-> FALSE]
    ELSE LET r == update_class_frame(h, cs[i], class_type)
         IN IF r.found THEN r
            ELSE update_class_frame_children(r.heap, cs, i + 1, class_type)

\* data.get('text', '')
TextOr(h, a) == IF h[a].text = Absent THEN "" ELSE h[a].text

RECURSIVE find_text_field(_, _, _), find_text_field_children(_, _, _, _)
\* extract_card_data_from_json.find_text_field(data, field_name)
find_text_field(h, a, field_name) ==
    IF h[a].type = "text" /\ h[a].name = field_name
    THEN TextOr(h, a)
    ELSE IF h[a].hasChildren
    THEN find_text_field_children(h, h[a].children, 1, field_name)
    ELSE ""

\* the loop over data['children']: a result is returned only if it is truthy
find_text_field_children(h, cs, i, field_name) ==
    IF i > Len(cs) THEN ""
    ELSE LET result == find_text_field(h, cs[i], field_name)
         IN IF result # "" THEN result
            ELSE find_text_field_children(h, cs, i + 1, field_name)

----------------------------------------------------------------------------
(* Card generation *)

\* row.get(key, default)
RowGet(row, key, default) == IF row[key] = Absent THEN default ELSE row[key]

\* one CSV row; a key that the file does not have is Absent
MkRow(card_name, art_path, class_type, artist) ==
    [card_name |-> card_name, card_type |-> "Action", rules_text |-> Absent,
     cost |-> "1", power |-> "3", defense |-> Absent,
     artist |-> artist, year |-> Absent,
     art_path |-> art_path, class_type |-> class_type]

Rows ==
    { MkRow("Fire Strike", "", Absent, Absent),
      MkRow("Ice Wall", "art/ice.png", "WIZARD", "Ann"),
      MkRow(Absent, Absent, "", Absent) }

\* template.copy(): a new outer dict whose 'data' is the template's own dict
ShallowCopyTemplate(h, a) == [heap |-> h, root |-> a]

\* json.loads(json.dumps(template)): a copy that shares no dict with the original
CloneTemplate(h, a) == Alloc(h, Dump(h, a))

\* generate_card(template, row): [heap, root], root the new card['data']
generate_card(h, t, row) ==
    LET card == CloneTemplate(h, t)
        d == card.root
        h1 == update_field(card.heap, d, "text", "Title", RowGet(row, "card_name", "")).heap
        h2 == update_field(h1, d, "text", "Type", RowGet(row, "card_type", "")).heap
        h3 == update_field(h2, d, "text", "Rules", RowGet(row, "rules_text", "")).heap
        h4 == update_field(h3, d, "text", "Cost", RowGet(row, "cost", "")).heap
        h5 == update_field(h4, d, "text", "Left Stat", RowGet(row, "power", "")).heap
        h6 == update_field(h5, d, "text", "Right Stat", RowGet(row, "defense", "")).heap
        artist == RowGet(row, "artist", "Unknown Artist")
        year == RowGet(row, "year", "2024")
        collector_info == artist \o " © " \o year \o " Legend Story Studios"
        h7 == update_field(h6, d, "text", "Collector Info", collector_info).heap
        art_path == RowGet(row, "art_path", "")
        h8 == IF art_path # ""
              THEN update_field(h7, d, "image", "Art", art_path).heap
              ELSE h7
        class_type == RowGet(row, "class_type", "ninja")
        h9 == IF class_type # ""
              THEN update_class_frame(h8, d, class_type).heap
              ELSE h8
    IN [heap |-> h9, root |-> d]

----------------------------------------------------------------------------
(* The grid compositor: ImageStitcher.stitch_images *)

\* default background_color of stitch_images
White == <<255, 255, 255>>
\* the fill colour of a blank card
BlankColor == <<240, 240, 240>>

\* an optional int argument (None, or an int)
None == [some |-> FALSE, v |-> 0]
Some(n) == [some |-> TRUE, v |-> n]

PresetNames == {"4k", "2k", "1080p", "720p"}
preset_map == ("4k" :> 3840) @@ ("2k" :> 2560) @@ ("1080p" :> 1920) @@ ("720p" :> 1280)

\* the image paths 1..n, those in bad being files that Image.open cannot read
MkPaths(n, bad) == [i \in 1..n |-> [id |-> i, ok |-> i \notin bad]]

RECURSIVE load_images_unguarded(_, _, _)
\* every path taken as an image, a path that fails to open too
load_images_unguarded(self, image_paths, i) ==
    IF i > Len(image_paths) THEN <<>>
    ELSE << [id |-> image_paths[i].id, w |-> self.card_width, h |-> self.card_height] >>
             \o load_images_unguarded(self, image_paths, i + 1)

RECURSIVE load_images(_, _, _)
\* load_images(image_paths), from the i-th path on: the images that could be
\* opened, each resized to card_width x card_height
load_images(self, image_paths, i) ==
    IF i > Len(image_paths) THEN <<>>
    ELSE IF image_paths[i].ok
    THEN << [id |-> image_paths[i].id, w |-> self.card_width, h |-> self.card_height] >>
             \o load_images(self, image_paths, i + 1)
    ELSE load_images(self, image_paths, i + 1)

\* canvas width with a gutter after every column, the last one included
canvas_width_trailing_gutter(self, cols, spacing) == cols * (self.card_width + spacing)

canvas_width_of(self, cols, spacing) == cols * self.card_width + (cols - 1) * spacing
canvas_height_of(self, rows, spacing) == rows * self.card_height + (rows - 1) * spacing

\* row and column taken the wrong way round
paste_position_swapped(self, idx, cols, spacing) ==
    [x |-> (idx \div cols) * (self.card_width + spacing),
     y |-> (idx % cols) * (self.card_height + spacing)]

\* where the idx-th cell (0-based) is pasted: row = idx // cols, col = idx % cols
paste_position(self, idx, cols, spacing) ==
    [x |-> (idx % cols) * (self.card_width + spacing),
     y |-> (idx \div cols) * (self.card_height + spacing)]

RECURSIVE paste_loop(_, _, _, _, _, _)
\* the pastes of  for idx in range(required_count), from idx on, in order
paste_loop(self, images, idx, rows, cols, spacing) ==
    IF idx >= rows * cols THEN <<>>
    ELSE LET at == paste_position(self, idx, cols, spacing)
             what == IF idx < Len(images)
                     THEN [kind |-> "image", id |-> images[idx + 1].id,
                           w |-> images[idx + 1].w, h |-> images[idx + 1].h,
                           color |-> <<>>]
                     ELSE [kind |-> "blank", id |-> 0,
                           w |-> self.card_width, h |-> self.card_height,
                           color |-> BlankColor]
         IN << [x |-> at.x, y |-> at.y, what |-> what] >>
                \o paste_loop(self, images, idx + 1, rows, cols, spacing)

\* an explicit target width taken as it is given, without the test  > 0
target_w_unchecked(preset, target_width) ==
    IF preset # Absent /\ preset # "" /\ Lower(preset) \in PresetNames
    THEN preset_map[Lower(preset)]
    ELSE IF target_width.some /\ target_width.v # 0
    THEN target_width.v
    ELSE 0

\* the target width the output is scaled down to, 0 if there is none
target_w_of(preset, target_width) ==
    IF preset # Absent /\ preset # "" /\ Lower(preset) \in PresetNames
    THEN preset_map[Lower(preset)]
    ELSE IF target_width.some /\ target_width.v # 0 /\ target_width.v > 0
    THEN target_width.v
    ELSE 0

\* the canvas resized to the target whenever there is one, a narrower canvas too
final_size_upscaling(canvas_width, canvas_height, target_w) ==
    IF target_w # 0
    THEN [w |-> target_w, h |-> (canvas_height * target_w) \div canvas_width]
    ELSE [w |-> canvas_width, h |-> canvas_height]

\* the resize called with (new_h, target_w) instead of (target_w, new_h)
final_size_swapped(canvas_width, canvas_height, target_w) ==
    IF target_w # 0 /\ canvas_width > target_w
    THEN [w |-> (canvas_height * target_w) \div canvas_width, h |-> target_w]
    ELSE [w |-> canvas_width, h |-> canvas_height]

\* the size of final_canvas; int(canvas_height * (target_w / canvas_width)) is
\* the floor of the exact quotient for the canvas sizes of this model
final_size(canvas_width, canvas_height, target_w) ==
    IF target_w # 0 /\ canvas_width > target_w
    THEN [w |-> target_w, h |-> (canvas_height * target_w) \div canvas_width]
    ELSE [w |-> canvas_width, h |-> canvas_height]

\* what stitch_images returns from  except Exception  and from  if not images
StitchFailed(images) ==
    [ret |-> FALSE, images |-> images, composed |-> FALSE,
     canvas_width |-> 0, canvas_height |-> 0, pastes |-> <<>>,
     saved |-> FALSE, final_width |-> 0, final_height |-> 0]

\* stitch_images(image_paths, rows, cols, output_path, spacing, background_color,
\* preset, target_width): its result and what it composed and saved.  Image.new
\* raises for a negative size, save and resize for an empty one; every
\* exception ends in  return False
stitch_images(self, image_paths, rows, cols, spacing, background_color, preset, target_width) ==
    LET images == load_images(self, image_paths, 1)
        canvas_width == canvas_width_of(self, cols, spacing)
        canvas_height == canvas_height_of(self, rows, spacing)
        final == final_size(canvas_width, canvas_height,
                            target_w_of(preset, target_width))
    IN IF images = <<>> THEN StitchFailed(images)
       ELSE IF canvas_width <= 0 \/ canvas_height <= 0 THEN StitchFailed(images)
       ELSE IF final.w <= 0 \/ final.h <= 0 THEN StitchFailed(images)
       ELSE [ret |-> TRUE, images |-> images, composed |-> TRUE,
             canvas_width |-> canvas_width, canvas_height |-> canvas_height,
             pastes |-> paste_loop(self, images, 0, rows, cols, spacing),
             saved |-> TRUE, final_width |-> final.w, final_height |-> final.h]

----------------------------------------------------------------------------
(* Pagination: ImageStitcher.create_tabletop_simulator_deck *)

\* Python's a // b for b # 0: the quotient rounded down, also for b < 0
FloorDiv(a, b) == IF b > 0 THEN a \div b ELSE (0 - a) \div (0 - b)

\* the number of sheets rounded down
sheet_count_floor(total_images, cards_per_sheet) == FloorDiv(total_images, cards_per_sheet)

\* sheet_count = (total_images + cards_per_sheet - 1) // cards_per_sheet
sheet_count_of(total_images, cards_per_sheet) ==
    FloorDiv(total_images + cards_per_sheet - 1, cards_per_sheet)

\* the number of rows rounded down
rows_floor(n, cols) == FloorDiv(n, cols)

\* rows = (len(sheet_images) + cols - 1) // cols
rows_of(n, cols) == FloorDiv(n + cols - 1, cols)

\* a slice index as Python reads it: counted from the end when negative, and
\* clamped to 0..n
SliceIndex(i, n) ==
    IF i < 0 THEN (IF i + n < 0 THEN 0 ELSE i + n) ELSE (IF i > n THEN n ELSE i)

\* image_paths[start_idx:end_idx]
Slice(seq, start_idx, end_idx) ==
    SubSeq(seq, SliceIndex(start_idx, Len(seq)) + 1, SliceIndex(end_idx, Len(seq)))

RECURSIVE deck_loop(_, _, _, _, _, _, _)
\* the sheets of  for sheet_idx in range(sheet_count), from sheet_idx on
deck_loop(self, image_paths, sheet_idx, cards_per_sheet, cols, preset, target_width) ==
    IF sheet_idx >= sheet_count_of(Len(image_paths), cards_per_sheet) THEN <<>>
    ELSE LET total_images == Len(image_paths)
             start_idx == sheet_idx * cards_per_sheet
             end_idx == IF start_idx + cards_per_sheet <= total_images
                        THEN start_idx + cards_per_sheet ELSE total_images
             sheet_images == Slice(image_paths, start_idx, end_idx)
             rows == rows_of(Len(sheet_images), cols)
         IN << [start_idx |-> start_idx, end_idx |-> end_idx,
                sheet_images |-> sheet_images, rows |-> rows, cols |-> cols,
                output_file |-> sheet_idx + 1,
                out |-> stitch_images(self, sheet_images, rows, cols, 0, White,
                                      preset, target_width)] >>
              \o deck_loop(self, image_paths, sheet_idx + 1, cards_per_sheet, cols,
                           preset, target_width)

\* create_tabletop_simulator_deck(image_paths, output_dir, cards_per_sheet, cols,
\* preset, target_width): the sheets it formed and output_files, the numbers n
\* of the deck_sheet_{n}.png it returns
create_tabletop_simulator_deck(self, image_paths, cards_per_sheet, cols, preset, target_width) ==
    LET sheets == deck_loop(self, image_paths, 0, cards_per_sheet, cols,
                            preset, target_width)
        written == SelectSeq(sheets, LAMBDA sh : sh.out.ret)
    IN IF cards_per_sheet = 0
       THEN \* line 262 divides by cards_per_sheet: ZeroDivisionError
            [raised |-> TRUE, sheets |-> <<>>, output_files |-> <<>>]
       ELSE IF cols = 0 /\ sheet_count_of(Len(image_paths), cards_per_sheet) > 0
       THEN \* line 273 divides by cols for the first sheet: ZeroDivisionError
            [raised |-> TRUE, sheets |-> <<>>, output_files |-> <<>>]
       ELSE [raised |-> FALSE, sheets |-> sheets,
             output_files |-> [i \in 1..Len(written) |-> written[i].output_file]]

\* suffix.lower() in image_extensions
IsStitchSuffix(suffix) ==
    \/ suffix \in {".png", ".jpg", ".jpeg", ".bmp", ".gif"}
    \/ Lower(suffix) \in {".png", ".jpg", ".jpeg", ".bmp", ".gif"}

RECURSIVE SortPaths(_)
\* image_paths.sort(): the paths are named so that they sort by id
SortPaths(paths) ==
    IF paths = <<>> THEN <<>>
    ELSE LET k == CHOOSE i \in 1..Len(paths) : \A j \in 1..Len(paths) : paths[i].id <= paths[j].id
         IN <<paths[k]>> \o SortPaths(SubSeq(paths, 1, k - 1) \o SubSeq(paths, k + 1, Len(paths)))

\* auto_stitch(image_dir, output_path, max_cols, spacing, cards_per_sheet,
\* preset, target_width): entries is the listing of image_dir, single_file
\* tells that output_path names a file and not a directory
auto_stitch(self, entries, single_file, max_cols, spacing, cards_per_sheet, preset, target_width) ==
    LET image_paths == SortPaths(SelectSeq(entries, LAMBDA p : IsStitchSuffix(p.suffix)))
        cps == IF cards_per_sheet.some THEN cards_per_sheet.v ELSE max_cols * 7
        made == create_tabletop_simulator_deck(self, image_paths, cps, max_cols,
                                               preset, target_width)
    IN IF image_paths = <<>>
       THEN [raised |-> FALSE, ret |-> FALSE, image_paths |-> image_paths,
             sheets |-> <<>>, generated |-> <<>>, copied |-> FALSE]
       ELSE IF made.raised
       THEN [raised |-> TRUE, ret |-> FALSE, image_paths |-> image_paths,
             sheets |-> <<>>, generated |-> <<>>, copied |-> FALSE]
       ELSE IF made.output_files = <<>>
       THEN [raised |-> FALSE, ret |-> FALSE, image_paths |-> image_paths,
             sheets |-> made.sheets, generated |-> <<>>, copied |-> FALSE]
       ELSE [raised |-> FALSE, ret |-> TRUE, image_paths |-> image_paths,
             sheets |-> made.sheets, generated |-> made.output_files,
             copied |-> single_file]

----------------------------------------------------------------------------
(* Overlay placement: CardConjurerAutomation.overlay_art_on_card_with_bounds
   and overlay_art_on_card.  A Python float that is a quotient of two ints is
   kept as the exact fraction n/d (d > 0); for the image sizes of this model
   int() of the float product is int() of the exact one. *)

Frac(n, d) == [n |-> n, d |-> d]
One == Frac(1, 1)
FracLeq(a, b) == a.n * b.d <= b.n * a.d
\* Python's max and min on floats
FracMax(a, b) == IF FracLeq(a, b) THEN b ELSE a
FracMin(a, b) == IF FracLeq(a, b) THEN a ELSE b

\* int(k * scale): the product truncated towards zero
IntOfProduct(k, scale) ==
    IF k * scale.n >= 0 THEN (k * scale.n) \div scale.d
    ELSE 0 - ((0 - k * scale.n) \div scale.d)

\* dict.get(key, default) for an int-valued key
GetInt(opt, default) == IF opt.some THEN opt.v ELSE default

\* min(bwidth / aw, bheight / ah) for every type: the 1.0 left out
overlay_scale_uncapped(type, bwidth, bheight, aw, ah) ==
    IF type = "fill"
    THEN FracMax(Frac(bwidth, aw), Frac(bheight, ah))
    ELSE FracMin(Frac(bwidth, aw), Frac(bheight, ah))

\* scale: 'fill' covers the rectangle, every other type is contained in it
overlay_scale(type, bwidth, bheight, aw, ah) ==
    IF type = "fill"
    THEN FracMax(Frac(bwidth, aw), Frac(bheight, ah))
    ELSE FracMin(FracMin(Frac(bwidth, aw), Frac(bheight, ah)), One)

\* Python's round(k * scale): to the nearest int, a tie to the even one
RoundOfProduct(k, scale) ==
    LET q == (k * scale.n) \div scale.d
        r2 == 2 * ((k * scale.n) % scale.d)
    IN IF r2 < scale.d THEN q
       ELSE IF r2 > scale.d THEN q + 1
       ELSE IF q % 2 = 0 THEN q ELSE q + 1

\* the resized dimension rounded to the nearest int instead of truncated
resized_dim_rounded(k, scale) ==
    IF RoundOfProduct(k, scale) >= 1 THEN RoundOfProduct(k, scale) ELSE 1

\* new_w = max(1, int(aw * scale)), new_h = max(1, int(ah * scale))
resized_dim(k, scale) ==
    IF IntOfProduct(k, scale) >= 1 THEN IntOfProduct(k, scale) ELSE 1

\* 'right' placed at the right edge of the rectangle, the art's width not taken off
align_x_right_edge(horiz, bx, bwidth, new_w) ==
    IF horiz = "left" THEN bx
    ELSE IF horiz = "right" THEN bx + bwidth
    ELSE bx + ((bwidth - new_w) \div 2)

\* ax from bounds['horizontal']
align_x(horiz, bx, bwidth, new_w) ==
    IF horiz = "left" THEN bx
    ELSE IF horiz = "right" THEN bx + bwidth - new_w
    ELSE bx + ((bwidth - new_w) \div 2)

\* 'bottom' placed at the lower edge of the rectangle, the art's height not taken off
align_y_bottom_edge(vert, by, bheight, new_h) ==
    IF vert = "top" THEN by
    ELSE IF vert = "bottom" THEN by + bheight
    ELSE by + ((bheight - new_h) \div 2)

\* ay from bounds['vertical']
align_y(vert, by, bheight, new_h) ==
    IF vert = "top" THEN by
    ELSE IF vert = "bottom" THEN by + bheight - new_h
    ELSE by + ((bheight - new_h) \div 2)

\* the base pasted first and the art on top of it
compose_base_first(base, art, new_w, new_h, x, y) ==
    [size |-> [w |-> base.w, h |-> base.h],
     pastes |-> << [what |-> "base", x |-> 0, y |-> 0, w |-> base.w, h |-> base.h,
                    alpha |-> base.alpha, img |-> base],
                   [what |-> "art", x |-> x, y |-> y, w |-> new_w, h |-> new_h,
                    alpha |-> art.alpha, img |-> art] >>]

\* the canvas made one pixel wider than the base
compose_canvas_wider(base, art, new_w, new_h, x, y) ==
    [size |-> [w |-> base.w + 1, h |-> base.h],
     pastes |-> << [what |-> "art", x |-> x, y |-> y, w |-> new_w, h |-> new_h,
                    alpha |-> art.alpha, img |-> art],
                   [what |-> "base", x |-> 0, y |-> 0, w |-> base.w, h |-> base.h,
                    alpha |-> base.alpha, img |-> base] >>]

\* composed = Image.new('RGBA', base.size, (0, 0, 0, 0)), then the resized art
\* pasted at (x, y) and the base pasted at (0, 0), each with itself as mask
compose(base, art, new_w, new_h, x, y) ==
    [size |-> [w |-> base.w, h |-> base.h],
     pastes |-> << [what |-> "art", x |-> x, y |-> y, w |-> new_w, h |-> new_h,
                    alpha |-> art.alpha, img |-> art],
                   [what |-> "base", x |-> 0, y |-> 0, w |-> base.w, h |-> base.h,
                    alpha |-> base.alpha, img |-> base] >>]

\* the file an overlay saved, as Image.open(...).convert('RGBA') reads it back:
\* composed.save(target) keeps the alpha of a .png target, and
\* composed.convert('RGB').save(target) makes every pixel of another target
\* opaque, a transparent one black
Saved(out, png) ==
    [ok |-> TRUE, w |-> out.composed.size.w, h |-> out.composed.size.h,
     alpha |-> IF png THEN "saved" ELSE "flattened", from |-> out.composed.pastes]

\* what both overlays return from  except Exception
OverlayFailed ==
    [ret |-> FALSE, scale |-> One, new_w |-> 0, new_h |-> 0, x |-> 0, y |-> 0,
     max_w |-> 0, max_h |-> 0, saved |-> FALSE,
     composed |-> [size |-> [w |-> 0, h |-> 0], pastes |-> <<>>]]

\* overlay_art_on_card_with_bounds(base_card_path, art_path, bounds, output_path)
overlay_art_on_card_with_bounds(base, art, bounds) ==
    IF ~base.ok \/ ~art.ok THEN OverlayFailed
    ELSE LET bx == GetInt(bounds.x, 0)
             by == GetInt(bounds.y, 0)
             bwidth == GetInt(bounds.width, base.w)
             bheight == GetInt(bounds.height, base.h)
             scale == overlay_scale(bounds.type, bwidth, bheight, art.w, art.h)
             new_w == resized_dim(art.w, scale)
             new_h == resized_dim(art.h, scale)
             horiz == IF bounds.horizontal = Absent THEN "center" ELSE bounds.horizontal
             vert == IF bounds.vertical = Absent THEN "center" ELSE bounds.vertical
             ax == align_x(horiz, bx, bwidth, new_w)
             ay == align_y(vert, by, bheight, new_h)
         IN [ret |-> TRUE, scale |-> scale, new_w |-> new_w, new_h |-> new_h,
             x |-> ax, y |-> ay, max_w |-> bwidth, max_h |-> bheight, saved |-> TRUE,
             composed |-> compose(base, art, new_w, new_h, ax, ay)]

\* the margin taken off once instead of on both sides
margin_box_one_side(b, margin_ratio) ==
    IntOfProduct(b, Frac(margin_ratio.d - margin_ratio.n, margin_ratio.d))

\* max_w = int(bw * (1.0 - 2 * margin_ratio)), max_h likewise
margin_box(b, margin_ratio) ==
    IntOfProduct(b, Frac(margin_ratio.d - 2 * margin_ratio.n, margin_ratio.d))

\* overlay_art_on_card(base_card_path, art_path, output_path, margin_ratio)
overlay_art_on_card(base, art, margin_ratio) ==
    IF ~base.ok \/ ~art.ok THEN OverlayFailed
    ELSE LET max_w == margin_box(base.w, margin_ratio)
             max_h == margin_box(base.h, margin_ratio)
             scale == FracMin(FracMin(Frac(max_w, art.w), Frac(max_h, art.h)), One)
             new_w == resized_dim(art.w, scale)
             new_h == resized_dim(art.h, scale)
             x == (base.w - new_w) \div 2
             y == (base.h - new_h) \div 2
         IN [ret |-> TRUE, scale |-> scale, new_w |-> new_w, new_h |-> new_h,
             x |-> x, y |-> y, max_w |-> max_w, max_h |-> max_h, saved |-> TRUE,
             composed |-> compose(base, art, new_w, new_h, x, y)]

----------------------------------------------------------------------------
(* Batch overlay: CardConjurerAutomation.overlay_generated_art *)

\* str.startswith
StartsWith(s, prefix) == Len(prefix) <= Len(s) /\ SubSeq(s, 1, Len(prefix)) = prefix

\* p.suffix.lower() in ('.png', '.jpg', '.jpeg'); a suffix that is one of the
\* three is its own lower case
IsImageSuffix(suffix) ==
    suffix \in {".png", ".jpg", ".jpeg"} \/ Lower(suffix) \in {".png", ".jpg", ".jpeg"}

\* the position of key in the dict d (a sequence of items in insertion order), 0 if none
DictIndex(d, key) ==
    IF \E i \in 1..Len(d) : d[i].stem = key
    THEN CHOOSE i \in 1..Len(d) : d[i].stem = key
    ELSE 0

RECURSIVE art_files_of(_, _, _)
\* art_files = {p.stem: p for p in art_dir_p.iterdir() if p.suffix.lower() in (...)},
\* from the i-th entry of the listing on: a stem keeps the place of its first
\* file and the value of its last
art_files_of(listing, i, d) ==
    IF i > Len(listing) THEN d
    ELSE IF ~IsImageSuffix(listing[i].suffix) THEN art_files_of(listing, i + 1, d)
    ELSE IF DictIndex(d, listing[i].stem) # 0
    THEN art_files_of(listing, i + 1,
                      [d EXCEPT ![DictIndex(d, listing[i].stem)].file = listing[i]])
    ELSE art_files_of(listing, i + 1,
                      Append(d, [stem |-> listing[i].stem, file |-> listing[i]]))

RECURSIVE fuzzy_match(_, _, _)
\* for k, v in art_files.items(): if k.startswith(stem) or stem.startswith(k):
\* the position of the first such item from the i-th on, 0 if none
fuzzy_match(d, stem, i) ==
    IF i > Len(d) THEN 0
    ELSE IF StartsWith(d[i].stem, stem) \/ StartsWith(stem, d[i].stem) THEN i
    ELSE fuzzy_match(d, stem, i + 1)

\* the prefix match alone, art_files.get(stem) not tried first
match_art_fuzzy_only(d, stem) == fuzzy_match(d, stem, 1)

\* art_path: art_files.get(stem), and the prefix match when there is none;
\* the position of the item in art_files, 0 for no art_path
match_art(d, stem) ==
    IF DictIndex(d, stem) # 0 THEN DictIndex(d, stem) ELSE fuzzy_match(d, stem, 1)

\* the bounds found in the JSON files
JsonBounds == [x |-> Some(0), y |-> Some(1), width |-> Some(3), height |-> Some(3), type |-> "fit", horizontal |-> Absent, vertical |-> Absent]

RECURSIVE overlay_loop(_, _, _, _, _, _)
\* for base_file in src_p.iterdir(), from the i-th entry on: what was done
\* with each entry
overlay_loop(src, i, art_files, json_stems, inplace, margin_ratio) ==
    IF i > Len(src) THEN <<>>
    ELSE LET base_file == src[i]
             stem == base_file.stem
             m == match_art(art_files, stem)
             target == IF inplace THEN stem \o base_file.suffix
                       ELSE stem \o "_with_art" \o base_file.suffix
             rest == overlay_loop(src, i + 1, art_files, json_stems, inplace, margin_ratio)
         IN IF ~IsImageSuffix(base_file.suffix) THEN rest
            ELSE IF m = 0
            THEN << [base |-> base_file, matched |-> FALSE, art |-> base_file,
                     with_bounds |-> FALSE, target |-> "", ok |-> FALSE] >> \o rest
            ELSE LET art == art_files[m].file
                     r == IF stem \in json_stems
                          THEN overlay_art_on_card_with_bounds(base_file.img, art.img, JsonBounds)
                          ELSE overlay_art_on_card(base_file.img, art.img, margin_ratio)
                 IN << [base |-> base_file, matched |-> TRUE, art |-> art,
                        with_bounds |-> stem \in json_stems,
                        target |-> IF r.saved THEN target ELSE "", ok |-> r.ret] >> \o rest

\* overlay_generated_art(art_dir, source_dir, json_dir, inplace, margin_ratio):
\* the count it returns and what it did with each base image
overlay_generated_art(dirs_exist, art_dir, src, json_stems, inplace, margin_ratio) ==
    IF ~dirs_exist THEN [ret |-> 0, items |-> <<>>]
    ELSE LET art_files == art_files_of(art_dir, 1, <<>>)
             items == overlay_loop(src, 1, art_files, json_stems, inplace, margin_ratio)
         IN [ret |-> Len(SelectSeq(items, LAMBDA it : it.ok)), items |-> items]

----------------------------------------------------------------------------
(* The calls on a document tree *)

NoCall ==
    [op |-> "none", root |-> 0, kind |-> "", name |-> "", value |-> "",
     pre |-> <<>>, found |-> FALSE, text |-> ""]

StitchIdle == [pc |-> "idle"]
DeckIdle == [pc |-> "idle"]
OverlayIdle == [pc |-> "idle"]
HelperIdle == [pc |-> "idle"]

\* no card_schema.json on disk, no update_card_schema call answered yet
NoSchemaFile == [file |-> [exists |-> FALSE], reply |-> [status |-> "none"]]

\* CardGenerGUI.__init__: nothing is running; the status bar says ready
GuiCreated ==
    [is_processing |-> FALSE, status_bar |-> "ready", threads |-> <<>>, requests |-> 0,
     last_request |-> [op |-> "", valid |-> FALSE, started |-> FALSE]]

\* the arguments the calls are made with
FieldKinds == {"text", "image", "group"}
FieldNames == {"Title", "Art"}
FieldValues == {"New", ""}
ClassTypes == {"ninja", "WIZARD", "ice mage"}

\* a tree of up to MaxNodes nodes is loaded, no call made yet
InitTree ==
    \E t \in TreesUpTo(MaxNodes) :
        LET ld == load_template(<<>>, t)
        IN /\ heap = ld.heap
           /\ template = ld.root
           /\ template_file = t
           /\ cards = <<>>
           /\ last = NoCall
           /\ calls = 0
           /\ stitch = StitchIdle
           /\ deck = DeckIdle
           /\ again = StitchIdle
           /\ overlay = OverlayIdle
           /\ batch = OverlayIdle
           /\ auto = DeckIdle
           /\ helper = HelperIdle
           /\ schema = NoSchemaFile
           /\ gui = GuiCreated

TreeFrame == UNCHANGED <<template, template_file, cards, calls, stitch, deck, again, overlay, batch, auto, helper, schema, gui>>

CallUpdateField(kind, name, value) ==
    /\ last.op = "none"
    /\ LET r == update_field(heap, template, kind, name, value)
       IN /\ heap' = r.heap
          /\ last' = [op |-> "update_field", root |-> template, kind |-> kind,
                      name |-> name, value |-> value, pre |-> heap,
                      found |-> r.found, text |-> ""]
    /\ TreeFrame

CallUpdateTextField(name, value) ==
    /\ last.op = "none"
    /\ LET r == update_text_field(heap, template, name, value)
       IN /\ heap' = r.heap
          /\ last' = [op |-> "update_text_field", root |-> template, kind |-> "text",
                      name |-> name, value |-> value, pre |-> heap,
                      found |-> r.found, text |-> ""]
    /\ TreeFrame

CallUpdateImageField(name, value) ==
    /\ last.op = "none"
    /\ LET r == update_image_field(heap, template, name, value)
       IN /\ heap' = r.heap
          /\ last' = [op |-> "update_image_field", root |-> template, kind |-> "image",
                      name |-> name, value |-> value, pre |-> heap,
                      found |-> r.found, text |-> ""]
    /\ TreeFrame

CallUpdateClassFrame(class_type) ==
    /\ last.op = "none"
    /\ LET r == update_class_frame(heap, template, class_type)
       IN /\ heap' = r.heap
          /\ last' = [op |-> "update_class_frame", root |-> template, kind |-> "image",
                      name |-> "", value |-> class_type, pre |-> heap,
                      found |-> r.found, text |-> ""]
    /\ TreeFrame

CallFindTextField(name) ==
    /\ last.op = "none"
    /\ heap' = heap
    /\ last' = [op |-> "find_text_field", root |-> template, kind |-> "text",
                name |-> name, value |-> "", pre |-> heap,
                found |-> FALSE, text |-> find_text_field(heap, template, name)]
    /\ TreeFrame

NextTree ==
    \/ \E kind \in FieldKinds, name \in FieldNames, value \in FieldValues :
           CallUpdateField(kind, name, value)
    \/ \E name \in FieldNames, value \in FieldValues : CallUpdateTextField(name, value)
    \/ \E name \in FieldNames, value \in FieldValues : CallUpdateImageField(name, value)
    \/ \E class_type \in ClassTypes : CallUpdateClassFrame(class_type)
    \/ \E name \in FieldNames : CallFindTextField(name)

\* one call on one tree
SpecTree == InitTree /\ [][NextTree]_vars

----------------------------------------------------------------------------
(* Claims about one call on a tree *)

RECURSIVE PreOrder(_, _), PreOrderKids(_, _, _)
\* the addresses of the tree at a in depth-first pre-order
PreOrder(h, a) == <<a>> \o PreOrderKids(h, h[a].children, 1)

PreOrderKids(h, cs, i) ==
    IF i > Len(cs) THEN <<>> ELSE PreOrder(h, cs[i]) \o PreOrderKids(h, cs, i + 1)

\* the nodes of the tree at a
Nodes(h, a) == { PreOrder(h, a)[i] : i \in 1..Len(PreOrder(h, a)) }

IsField(h, n, kind, name) == h[n].type = kind /\ h[n].name = name

IsClassFrame(h, n) == h[n].type = "image" /\ Contains("Class", NameOr(h, n))

\* the first address of the sequence po that is in the set S, 0 if none
FirstIn(po, S) ==
    LET idx == { i \in 1..Len(po) : po[i] \in S }
    IN IF idx = {} THEN 0
       ELSE po[CHOOSE i \in idx : \A j \in idx : i <= j]

\* the first node in pre-order that is a (kind, name) field, 0 if none
FirstField(h, a, kind, name) ==
    FirstIn(PreOrder(h, a), { n \in Nodes(h, a) : IsField(h, n, kind, name) })

FirstClassFrame(h, a) ==
    FirstIn(PreOrder(h, a), { n \in Nodes(h, a) : IsClassFrame(h, n) })

\* every dict but m is as it was before the last call
OnlyChanged(m) ==
    /\ Len(heap) = Len(last.pre)
    /\ \A a \in 1..Len(heap) : a # m => heap[a] = last.pre[a]

FieldUpdates == {"update_field", "update_text_field", "update_image_field"}

\* C1: update_field / update_text_field / update_image_field with kind text or
\* image changes only the first node in depth-first pre-order whose type and
\* name both match, and of that node only its text (resp. src); every other
\* node, a later match and the matched node's descendants included, is as before.
C1_OnlyFirstMatchUpdated ==
    (last.op \in FieldUpdates /\ last.kind \in {"text", "image"}) =>
        LET m == FirstField(last.pre, last.root, last.kind, last.name)
        IN /\ OnlyChanged(m)
           /\ m # 0 =>
                heap[m] = IF last.kind = "text"
                          THEN [last.pre[m] EXCEPT !.text = last.value]
                          ELSE [last.pre[m] EXCEPT !.src = last.value]

\* a call that updated the first of two matching nodes, the first one having a
\* child, and left the second one with its old value
C1_Witness ==
    /\ last.op \in FieldUpdates
    /\ last.kind \in {"text", "image"}
    /\ LET m == FirstField(last.pre, last.root, last.kind, last.name)
           all == { n \in Nodes(last.pre, last.root) :
                      IsField(last.pre, n, last.kind, last.name) }
       IN /\ m # 0
          /\ last.pre[m].children # <<>>
          /\ Cardinality(all) >= 2
          /\ heap[m] # last.pre[m]
          /\ \E n \in all \ {m} : heap[n].text # last.value /\ heap[n].src # last.value

\* C3: update_field returns true exactly when some node of the tree matches
\* (kind, name); when none matches it returns false and the tree is unchanged.
C3_FoundIffSomeNodeMatches ==
    (last.op = "update_field") =>
        /\ last.found <=>
             (\E n \in Nodes(last.pre, last.root) :
                  IsField(last.pre, n, last.kind, last.name))
        /\ ~last.found => heap = last.pre

\* a call on a tree of several nodes, one of them with the right name but
\* another type, that found no match
C3_Witness ==
    /\ last.op = "update_field"
    /\ ~last.found
    /\ Len(last.pre) >= 3
    /\ \E n \in Nodes(last.pre, last.root) :
           last.pre[n].name = last.name /\ last.pre[n].type # last.kind
    /\ \E n \in Nodes(last.pre, last.root) : ~last.pre[n].hasChildren

\* what Python gives for the class names the calls are made with
ExpectedLower ==
    [c \in ClassTypes |->
        CASE c = "ninja" -> "ninja" [] c = "WIZARD" -> "wizard"
          [] c = "ice mage" -> "ice mage"]

ExpectedTitle ==
    [c \in ClassTypes |->
        CASE c = "ninja" -> "Ninja" [] c = "WIZARD" -> "Wizard"
          [] c = "ice mage" -> "Ice Mage"]

\* C4: update_class_frame(root, c) rewrites only the first image node in
\* pre-order whose name contains "Class": src fab/frame/classes/{lower(c)}.png,
\* thumb fab/frame/classes/thumb-{lower(c)}.png, name "{title(c)} Class"; it
\* returns true iff there is such a node and otherwise changes nothing.
C4_ClassFrameRewritten ==
    (last.op = "update_class_frame") =>
        LET m == FirstClassFrame(last.pre, last.root)
            c == last.value
        IN /\ last.found <=> m # 0
           /\ OnlyChanged(m)
           /\ m # 0 =>
                heap[m] = [last.pre[m] EXCEPT
                    !.src = "fab/frame/classes/" \o ExpectedLower[c] \o ".png",
                    !.thumb = "fab/frame/classes/thumb-" \o ExpectedLower[c] \o ".png",
                    !.name = ExpectedTitle[c] \o " Class"]

\* a call with an upper-case class name on a tree with two class frames
C4_Witness ==
    /\ last.op = "update_class_frame"
    /\ last.value = "WIZARD"
    /\ last.found
    /\ Cardinality({ n \in Nodes(last.pre, last.root) : IsClassFrame(last.pre, n) }) = 2
    /\ \E n \in Nodes(heap, last.root) : heap[n].name = "Wizard Class"
    /\ \E n \in Nodes(heap, last.root) : heap[n].name = "Ninja Class"

\* C5: find_text_field(root, name) returns the text of the first text node
\* named name in pre-order, the node update_field(root, 'text', name, v)
\* would update, and the empty string when there is none.
C5_FindReadsFirstMatch ==
    (last.op = "find_text_field") =>
        LET m == FirstField(last.pre, last.root, "text", last.name)
        IN last.text = IF m = 0 THEN "" ELSE TextOr(last.pre, m)

----------------------------------------------------------------------------
(* Repeated calls of update_class_frame on one tree *)

\* one more call of update_class_frame on the loaded tree; last.pre stays the
\* tree as it was loaded
RepeatUpdateClassFrame(class_type) ==
    /\ calls < MaxCalls
    /\ \E r \in {update_class_frame(heap, template, class_type)} :
          /\ heap' = r.heap
          /\ last' = [op |-> "update_class_frame", root |-> template, kind |-> "image",
                      name |-> "", value |-> class_type,
                      pre |-> IF calls = 0 THEN heap ELSE last.pre,
                      found |-> r.found, text |-> ""]
    /\ calls' = calls + 1
    /\ UNCHANGED <<template, template_file, cards, stitch, deck, again, overlay, batch, auto, helper, schema, gui>>

NextClass == \E class_type \in ClassTypes : RepeatUpdateClassFrame(class_type)

RECURSIVE ClassTree(_)
\* a tree without the dicts TitleEmpty and ArtGroup, which update_class_frame
\* cannot tell from TitleOld and Group: it reads type, name and children only
ClassTree(t) ==
    /\ t.text # ""
    /\ ~(t.type = "group" /\ t.name = "Art")
    /\ \A i \in 1..Len(t.children) : ClassTree(t.children[i])

InitClass == InitTree /\ ClassTree(template_file)

SpecClass == InitClass /\ [][NextClass]_vars

\* C30: for every tree and every sequence of update_class_frame calls with
\* any class names, all calls rewrite the same single node: the one the first
\* call matched, whose new name still contains "Class"; no other node's src,
\* thumb or name (or anything of it) ever changes, and the state of that node
\* depends only on the last class name applied.  A tree without such a node is
\* never changed.
C30_StableClassTarget ==
    (calls >= 1) =>
        LET m == FirstClassFrame(last.pre, template)
            c == last.value
        IN /\ last.found <=> m # 0
           /\ OnlyChanged(m)
           /\ m # 0 =>
                /\ m = FirstClassFrame(heap, template)
                /\ Contains("Class", heap[m].name)
                /\ heap[m] = [last.pre[m] EXCEPT
                      !.src = "fab/frame/classes/" \o ExpectedLower[c] \o ".png",
                      !.thumb = "fab/frame/classes/thumb-" \o ExpectedLower[c] \o ".png",
                      !.name = ExpectedTitle[c] \o " Class"]

\* three calls on a tree with two class frames, the last with "ice mage": the
\* first frame is the one of the last name, the second is still the ninja's
C30_Witness ==
    /\ calls = 3
    /\ last.value = "ice mage"
    /\ Cardinality({ n \in Nodes(last.pre, template) : IsClassFrame(last.pre, n) }) = 2
    /\ heap[FirstClassFrame(last.pre, template)].name = "Ice Mage Class"
    /\ Cardinality({ n \in Nodes(heap, template) : heap[n].name = "Ninja Class" }) = 1

----------------------------------------------------------------------------
(* The document lifecycle: a template is loaded once, cards are generated from
   it, and the caller goes on to change the cards it was given *)

Init ==
    \E t \in Templates :
        LET ld == load_template(<<>>, t)
        IN /\ heap = ld.heap
           /\ template = ld.root
           /\ template_file = t
           /\ cards = <<>>
           /\ last = NoCall
           /\ calls = 0
           /\ stitch = StitchIdle
           /\ deck = DeckIdle
           /\ again = StitchIdle
           /\ overlay = OverlayIdle
           /\ batch = OverlayIdle
           /\ auto = DeckIdle
           /\ helper = HelperIdle
           /\ schema = NoSchemaFile
           /\ gui = GuiCreated

\* card = generate_card(template, row)
GenerateCard(row) ==
    /\ calls < MaxCalls
    /\ Len(cards) < MaxCards
    /\ LET r == generate_card(heap, template, row)
       IN /\ heap' = r.heap
          /\ cards' = Append(cards, r.root)
          /\ last' = [op |-> "generate_card", root |-> r.root, kind |-> "",
                      name |-> "", value |-> "", pre |-> heap,
                      found |-> FALSE, text |-> ""]
    /\ calls' = calls + 1
    /\ UNCHANGED <<template, template_file, stitch, deck, again, overlay, batch, auto, helper, schema, gui>>

\* update_field(card['data'], kind, name, value) on the i-th card
UpdateCardField(i, kind, name, value) ==
    /\ calls < MaxCalls
    /\ i \in 1..Len(cards)
    /\ LET r == update_field(heap, cards[i], kind, name, value)
       IN /\ heap' = r.heap
          /\ last' = [op |-> "update_field", root |-> cards[i], kind |-> kind,
                      name |-> name, value |-> value, pre |-> heap,
                      found |-> r.found, text |-> ""]
    /\ calls' = calls + 1
    /\ UNCHANGED <<template, template_file, cards, stitch, deck, again, overlay, batch, auto, helper, schema, gui>>

\* update_class_frame(card['data'], class_type) on the i-th card
UpdateCardClassFrame(i, class_type) ==
    /\ calls < MaxCalls
    /\ i \in 1..Len(cards)
    /\ LET r == update_class_frame(heap, cards[i], class_type)
       IN /\ heap' = r.heap
          /\ last' = [op |-> "update_class_frame", root |-> cards[i], kind |-> "image",
                      name |-> "", value |-> class_type, pre |-> heap,
                      found |-> r.found, text |-> ""]
    /\ calls' = calls + 1
    /\ UNCHANGED <<template, template_file, cards, stitch, deck, again, overlay, batch, auto, helper, schema, gui>>

Next ==
    \/ \E row \in Rows : GenerateCard(row)
    \/ \E i \in 1..MaxCards, kind \in {"text", "image"}, name \in FieldNames :
           UpdateCardField(i, kind, name, "Changed")
    \/ \E i \in 1..MaxCards : UpdateCardClassFrame(i, "ice mage")

Spec == Init /\ [][Next]_vars

\* the documents the program holds: the template and the cards
Docs == {template} \cup { cards[i] : i \in 1..Len(cards) }

\* C2: generate_card works on a full deep copy of the template: whatever cards
\* were generated and however they were changed afterwards, the template
\* equals what was loaded, no card shares a node with the template or with
\* another card, and a call on one card leaves every other card as it was.
C2_CardsIndependentOfTemplate ==
    /\ Dump(heap, template) = template_file
    /\ \A d, e \in Docs : d # e => Nodes(heap, d) \cap Nodes(heap, e) = {}
    /\ Cardinality(Docs) = 1 + Len(cards)
    /\ \A i \in 1..Len(cards) :
           (cards[i] # last.root /\ cards[i] <= Len(last.pre)) =>
               Dump(heap, cards[i]) = Dump(last.pre, cards[i])

\* two cards of a template with a nested field, both different from the
\* template and from each other, the first changed again after the second
\* was generated
C2_Witness ==
    /\ Len(cards) = 2
    /\ heap[template].children # <<>>
    /\ Dump(heap, cards[1]) # template_file
    /\ Dump(heap, cards[2]) # template_file
    /\ Dump(heap, cards[1]) # Dump(heap, cards[2])
    /\ last.op = "update_field"
    /\ last.root = cards[1]
    /\ heap # last.pre

----------------------------------------------------------------------------
(* One call of stitch_images *)

\* ImageStitcher(card_width, card_height): a small card and the default one
Stitchers ==
    { [card_width |-> 2, card_height |-> 3],
      [card_width |-> 1500, card_height |-> 2100] }

Backgrounds == {White, BlankColor}
Presets == {Absent, "", "4K", "2k", "1080p", "720P", "8k"}
TargetWidths == {None, Some(-5), Some(0), Some(1000)}

InitStitch ==
    /\ heap = <<>>
    /\ template = 0
    /\ template_file = MkTree(Group, <<>>)
    /\ cards = <<>>
    /\ last = NoCall
    /\ calls = 0
    /\ stitch = StitchIdle
    /\ deck = DeckIdle
    /\ again = StitchIdle
    /\ overlay = OverlayIdle
    /\ batch = OverlayIdle
    /\ auto = DeckIdle
    /\ helper = HelperIdle
    /\ schema = NoSchemaFile
    /\ gui = GuiCreated

CallStitchImages(self, image_paths, rows, cols, spacing, background_color, preset, target_width) ==
    /\ stitch.pc = "idle"
    /\ stitch' = [pc |-> "done", self |-> self, image_paths |-> image_paths,
                  rows |-> rows, cols |-> cols, spacing |-> spacing,
                  background_color |-> background_color, preset |-> preset,
                  target_width |-> target_width,
                  out |-> stitch_images(self, image_paths, rows, cols, spacing,
                                        background_color, preset, target_width)]
    /\ UNCHANGED <<heap, template, template_file, cards, last, calls, deck, again, overlay, batch, auto, helper, schema, gui>>

NextStitch ==
    /\ stitch.pc = "idle"
    /\ \E self \in Stitchers, n \in 0..MaxImages, rows \in 1..MaxRows, cols \in 1..MaxCols,
          spacing \in 0..MaxSpacing, background_color \in Backgrounds,
          preset \in Presets, target_width \in TargetWidths :
           \* a background other than the default one is given without scaling
           /\ background_color = White \/ (preset = Absent /\ target_width = None)
           /\ \E bad \in SUBSET (1..n) :
               CallStitchImages(self, MkPaths(n, bad), rows, cols, spacing,
                                background_color, preset, target_width)

\* the sheet that was saved is given to stitch_images once more, as the only
\* image of a 1 x 1 grid of its own size, with the same preset and target_width
StitchAgain ==
    /\ stitch.pc = "done"
    /\ stitch.out.saved
    /\ again.pc = "idle"
    /\ LET self == [card_width |-> stitch.out.final_width,
                    card_height |-> stitch.out.final_height]
       IN again' = [pc |-> "done", self |-> self,
                    out |-> stitch_images(self, MkPaths(1, {}), 1, 1, 0,
                                          stitch.background_color, stitch.preset,
                                          stitch.target_width)]
    /\ UNCHANGED <<heap, template, template_file, cards, last, calls, stitch, deck, overlay, batch, auto, helper, schema, gui>>

SpecStitch == InitStitch /\ [][NextStitch \/ StitchAgain]_vars

\* a call of stitch_images that composed a canvas
Composed == stitch.pc = "done" /\ stitch.out.composed

Pastes == stitch.out.pastes
W == stitch.self.card_width
H == stitch.self.card_height

\* the top-left corner of cell (row, col) of the grid
CellX(col) == col * (W + stitch.spacing)
CellY(row) == row * (H + stitch.spacing)

\* the pastes whose top-left corner is that of the cell with 0-based index i
\* in row-major order
PastesAtCell(i) ==
    { k \in 1..Len(Pastes) :
        /\ Pastes[k].x = CellX(i % stitch.cols)
        /\ Pastes[k].y = CellY(i \div stitch.cols) }

Max(S) == CHOOSE m \in S : \A n \in S : n <= m
Min2(a, b) == IF a <= b THEN a ELSE b

\* C6: for rows, cols >= 1 and spacing >= 0 the canvas stitch_images composes
\* is cols*W + (cols-1)*spacing wide and rows*H + (rows-1)*spacing high: it
\* ends exactly at the right edge of the last column and at the bottom edge of
\* the last row of pasted cards.
C6_CanvasSize ==
    Composed =>
        /\ stitch.out.canvas_width = stitch.cols * W + (stitch.cols - 1) * stitch.spacing
        /\ stitch.out.canvas_height = stitch.rows * H + (stitch.rows - 1) * stitch.spacing
        /\ stitch.out.canvas_width =
               Max({ Pastes[k].x + Pastes[k].what.w : k \in 1..Len(Pastes) })
        /\ stitch.out.canvas_height =
               Max({ Pastes[k].y + Pastes[k].what.h : k \in 1..Len(Pastes) })

\* a canvas of several rows and columns with a gutter
C6_Witness ==
    /\ Composed
    /\ stitch.rows = 2
    /\ stitch.cols = 3
    /\ stitch.spacing = 1
    /\ stitch.out.canvas_width = 8
    /\ stitch.out.canvas_height = 7

\* the ids of the paths that could be loaded, in input order
LoadedIds ==
    LET ok == SelectSeq(stitch.image_paths, LAMBDA p : p.ok)
    IN [i \in 1..Len(ok) |-> ok[i].id]

\* the image of path id is pasted at the cell with 0-based index i, and there only
ImageAtCell(id, i) ==
    /\ \E k \in PastesAtCell(i) : Pastes[k].what.kind = "image" /\ Pastes[k].what.id = id
    /\ \A k \in 1..Len(Pastes) :
           (Pastes[k].what.kind = "image" /\ Pastes[k].what.id = id) => k \in PastesAtCell(i)

\* C7 as stated: for every index i < min(len(images), rows*cols) the image
\* supplied at position i of the input sequence is pasted at cell
\* (i div cols, i mod cols).
C7_InputPositionAtCell ==
    Composed =>
        \A i \in 0..(Min2(Len(stitch.out.images), stitch.rows * stitch.cols) - 1) :
            ImageAtCell(stitch.image_paths[i + 1].id, i)

\* C7 amended: images are placed row-major in the order in which they loaded:
\* for every i < min(number of loaded images, rows*cols) the i-th image that
\* could be loaded (in input order) is pasted at cell (i div cols, i mod cols),
\* top-left corner x = col*(W+spacing), y = row*(H+spacing); this is the image
\* at input position i when every earlier path loads.
C7_LoadedImagesRowMajor ==
    Composed =>
        /\ \A i \in 0..(Min2(Len(LoadedIds), stitch.rows * stitch.cols) - 1) :
               ImageAtCell(LoadedIds[i + 1], i)
        /\ \A i \in 0..(Min2(Len(LoadedIds), stitch.rows * stitch.cols) - 1) :
               (\A j \in 1..(i + 1) : stitch.image_paths[j].ok) =>
                   ImageAtCell(stitch.image_paths[i + 1].id, i)

\* a grid of two rows and two columns given three paths of which the second
\* failed to load: the third path's image is in cell 1
C7_Witness ==
    /\ Composed
    /\ stitch.rows = 2
    /\ stitch.cols = 2
    /\ Len(stitch.image_paths) = 3
    /\ ~stitch.image_paths[2].ok
    /\ Len(stitch.out.images) = 2
    /\ ImageAtCell(3, 1)

\* C8: every one of the rows*cols cells receives exactly one paste; a cell
\* whose index is below the number of images holds an image, every other cell
\* the placeholder of card size and colour (240,240,240), which is distinct
\* from the background; images with index >= rows*cols are placed nowhere.
C8_CellsFilledPlaceholderDistinct ==
    Composed =>
        /\ Len(Pastes) = stitch.rows * stitch.cols
        /\ \A i \in 0..(stitch.rows * stitch.cols - 1) :
               /\ Cardinality(PastesAtCell(i)) = 1
               /\ \A k \in PastesAtCell(i) :
                      IF i < Len(stitch.out.images)
                      THEN Pastes[k].what.kind = "image"
                      ELSE /\ Pastes[k].what.kind = "blank"
                           /\ Pastes[k].what.w = W /\ Pastes[k].what.h = H
                           /\ Pastes[k].what.color = <<240, 240, 240>>
                           /\ Pastes[k].what.color # stitch.background_color
        /\ \A j \in 1..Len(stitch.out.images) :
               j > stitch.rows * stitch.cols =>
                   ~\E k \in 1..Len(Pastes) :
                       Pastes[k].what.kind = "image"
                       /\ Pastes[k].what.id = stitch.out.images[j].id

\* the width a preset name stands for, 0 when it is not a preset name
PresetWidth(preset) ==
    CASE preset \in {"4k", "4K"} -> 3840
      [] preset \in {"2k", "2K"} -> 2560
      [] preset \in {"1080p", "1080P"} -> 1920
      [] preset \in {"720p", "720P"} -> 1280
      [] OTHER -> 0

\* the target that applies to the last call: the preset's width, else the
\* explicit width when it is positive, else none (0)
TargetOfCall ==
    IF PresetWidth(stitch.preset) # 0 THEN PresetWidth(stitch.preset)
    ELSE IF stitch.target_width.some /\ stitch.target_width.v > 0
    THEN stitch.target_width.v
    ELSE 0

\* the saved sheet has the dimensions the rescale rule gives for target t
RescaledTo(t) ==
    LET cw == stitch.out.canvas_width
        ch == stitch.out.canvas_height
        fw == stitch.out.final_width
        fh == stitch.out.final_height
    IN IF t = 0 \/ cw <= t
       THEN fw = cw /\ fh = ch
       ELSE /\ fw = t
            /\ fh * cw <= ch * t
            /\ ch * t < (fh + 1) * cw
            /\ fw < cw /\ fh <= ch

\* C11: the presets 4k, 2k, 1080p, 720p stand for the widths 3840, 2560, 1920,
\* 1280; when no target applies or the canvas is at most as wide as the target
\* the saved sheet has the canvas's dimensions; otherwise its width is the
\* target and its height the canvas height times target/canvasWidth, truncated
\* (never an upscale, the aspect ratio kept up to the truncation).
C11_RescaleRule ==
    Composed =>
        /\ stitch.out.saved
        /\ RescaledTo(TargetOfCall)
        /\ stitch.out.final_width <= stitch.out.canvas_width
        /\ stitch.out.final_height <= stitch.out.canvas_height

\* a sheet of three default cards in a row (4500 x 2100) saved with preset 4K
C11_Witness ==
    /\ Composed
    /\ stitch.preset = "4K"
    /\ stitch.out.canvas_width = 4500
    /\ stitch.out.canvas_height = 2100
    /\ stitch.out.final_width = 3840
    /\ stitch.out.final_height = 1792

\* C12: the rescale rule is idempotent: the saved sheet, given to the rule
\* again with the same preset and target width, keeps its dimensions (its
\* width is at most the target after the first application).
C12_RescaleIdempotent ==
    (again.pc = "done") =>
        /\ again.out.ret
        /\ again.out.canvas_width = stitch.out.final_width
        /\ again.out.canvas_height = stitch.out.final_height
        /\ again.out.final_width = stitch.out.final_width
        /\ again.out.final_height = stitch.out.final_height
        /\ TargetOfCall # 0 => stitch.out.final_width <= TargetOfCall

\* a portrait sheet (1500 x 2100) scaled down to the explicit width 1000, whose
\* height 1400 is still above the target, and applied again
C12_Witness ==
    /\ again.pc = "done"
    /\ stitch.out.canvas_width = 1500
    /\ stitch.out.canvas_height = 2100
    /\ stitch.out.final_width = 1000
    /\ stitch.out.final_height = 1400
    /\ again.out.final_width = 1000
    /\ again.out.final_height = 1400

\* the preset argument is a name, but not a preset's name
UnknownPreset == stitch.preset \notin {Absent, ""} /\ PresetWidth(stitch.preset) = 0
\* the explicit target width is given and is <= 0
BadTargetWidth == stitch.target_width.some /\ stitch.target_width.v <= 0
Unscaled ==
    /\ stitch.out.final_width = stitch.out.canvas_width
    /\ stitch.out.final_height = stitch.out.canvas_height

ImagePastes == { k \in 1..Len(Pastes) : Pastes[k].what.kind = "image" }
BlankPastes == { k \in 1..Len(Pastes) : Pastes[k].what.kind = "blank" }

\* the first k loaded paths are the images placed, in cells 0..k-1 in input
\* order, and the placeholders are in cells from k on only
CompactedTo(k) ==
    /\ \A i \in 0..(k - 1) : ImageAtCell(LoadedIds[i + 1], i)
    /\ \A p \in ImagePastes : \E i \in 0..(k - 1) : Pastes[p].what.id = LoadedIds[i + 1]
    /\ \A p \in BlankPastes : \A i \in 0..(k - 1) : p \notin PastesAtCell(i)

\* no path loaded: the call returned False and saved nothing
NothingLoadedFails ==
    (stitch.pc = "done" /\ LoadedIds = <<>>) => (~stitch.out.ret /\ ~stitch.out.saved)

\* C28 as stated: the images placed on the canvas are exactly the input paths
\* that loaded, in input order, in cells 0..k-1 without a gap (k the number of
\* loaded paths); a path that fails to load leaves no blank at its own index,
\* the placeholders come only after the last loaded image; when no path loads
\* the call returns false and writes no file.
C28_AllLoadedPlaced ==
    /\ Composed => CompactedTo(Len(LoadedIds))
    /\ NothingLoadedFails

\* C28 amended: the images placed are the first min(k, rows*cols) of the k
\* paths that loaded, in input order, in cells 0..min(k, rows*cols)-1 without a
\* gap; a loaded path beyond the grid is placed nowhere; the placeholders come
\* only after the last placed image; when no path loads the call returns false
\* and writes no file.
C28_LoadedPlacedUpToGrid ==
    /\ Composed =>
          /\ CompactedTo(Min2(Len(LoadedIds), stitch.rows * stitch.cols))
          /\ \A j \in 1..Len(LoadedIds) :
                j > stitch.rows * stitch.cols =>
                    \A p \in ImagePastes : Pastes[p].what.id # LoadedIds[j]
    /\ NothingLoadedFails

\* a row of three cells given three paths of which the first failed to load:
\* the second and third paths' images are in cells 0 and 1, the placeholder in
\* cell 2
C28_Witness ==
    /\ Composed
    /\ stitch.rows = 1 /\ stitch.cols = 3
    /\ Len(stitch.image_paths) = 3
    /\ ~stitch.image_paths[1].ok
    /\ LoadedIds = <<2, 3>>
    /\ ImageAtCell(2, 0) /\ ImageAtCell(3, 1)
    /\ BlankPastes = PastesAtCell(2)


----------------------------------------------------------------------------
(* One call of create_tabletop_simulator_deck *)

DefaultStitcher == [card_width |-> 1500, card_height |-> 2100]
SmallStitcher == [card_width |-> 2, card_height |-> 3]

\* the calls made: every small input, and the two decks of the TTS convention
\* (70 cards per sheet, 10 columns) with 23 and with 140 images
DeckCalls ==
    { [self |-> SmallStitcher, image_paths |-> MkPaths(n, bad),
       cards_per_sheet |-> cps, cols |-> cols, preset |-> preset, target_width |-> None] :
        n \in 0..MaxDeckImages, bad \in SUBSET (1..MaxDeckImages),
        cps \in 1..MaxCardsPerSheet, cols \in 1..MaxDeckCols, preset \in {Absent, "2k"} }
    \cup
    { [self |-> DefaultStitcher, image_paths |-> MkPaths(n, {}),
       cards_per_sheet |-> 70, cols |-> 10, preset |-> Absent, target_width |-> None] :
        n \in {23, 140} }

CallCreateDeck(c) ==
    /\ deck.pc = "idle"
    /\ deck' = [pc |-> "done", self |-> c.self, image_paths |-> c.image_paths,
                cards_per_sheet |-> c.cards_per_sheet, cols |-> c.cols,
                preset |-> c.preset, target_width |-> c.target_width,
                out |-> create_tabletop_simulator_deck(c.self, c.image_paths,
                            c.cards_per_sheet, c.cols, c.preset, c.target_width)]
    /\ UNCHANGED <<heap, template, template_file, cards, last, calls, stitch, again, overlay, batch, auto, helper, schema, gui>>

NextDeck == deck.pc = "idle" /\ \E c \in DeckCalls : CallCreateDeck(c)

SpecDeck == InitStitch /\ [][NextDeck]_vars

Sheets == deck.out.sheets
Total == Len(deck.image_paths)

\* the least k with k * d >= n
CeilDiv(n, d) == CHOOSE k \in 0..n : k * d >= n /\ \A j \in 0..n : j * d >= n => k <= j

RECURSIVE Concat(_, _)
\* the sheets' chunks from the i-th on, one after the other
Concat(sheets, i) ==
    IF i > Len(sheets) THEN <<>> ELSE sheets[i].sheet_images \o Concat(sheets, i + 1)

\* C9: for total >= 0, cardsPerSheet >= 1, cols >= 1 the chunks are
\* ceil(total/cardsPerSheet) many, contiguous, in input order and disjoint
\* (one after the other they are the input), so their sizes sum to total; each
\* has at most cardsPerSheet images and only the last may have fewer.
C9_ChunksPartitionInput ==
    (deck.pc = "done") =>
        /\ Len(Sheets) = CeilDiv(Total, deck.cards_per_sheet)
        /\ Concat(Sheets, 1) = deck.image_paths
        /\ \A i \in 1..Len(Sheets) :
               /\ Sheets[i].start_idx = (i - 1) * deck.cards_per_sheet
               /\ Sheets[i].end_idx - Sheets[i].start_idx = Len(Sheets[i].sheet_images)
               /\ Len(Sheets[i].sheet_images) >= 1
               /\ Len(Sheets[i].sheet_images) <= deck.cards_per_sheet
               /\ i < Len(Sheets) => Len(Sheets[i].sheet_images) = deck.cards_per_sheet

\* five images, two per sheet: three chunks, the last one shorter
C9_Witness ==
    /\ deck.pc = "done"
    /\ Total = 5
    /\ deck.cards_per_sheet = 2
    /\ Len(Sheets) = 3
    /\ Len(Sheets[3].sheet_images) = 1
    /\ Sheets[3].sheet_images[1].id = 5

\* the cells of a sheet's grid that hold a placeholder (0-based, row-major)
BlankCells(sh) ==
    { i \in 0..(sh.rows * sh.cols - 1) :
        \E k \in 1..Len(sh.out.pastes) :
            /\ sh.out.pastes[k].what.kind = "blank"
            /\ sh.out.pastes[k].x = (i % sh.cols) * deck.self.card_width
            /\ sh.out.pastes[k].y = (i \div sh.cols) * deck.self.card_height }

ImageCells(sh) ==
    { i \in 0..(sh.rows * sh.cols - 1) :
        \E k \in 1..Len(sh.out.pastes) :
            /\ sh.out.pastes[k].what.kind = "image"
            /\ sh.out.pastes[k].x = (i % sh.cols) * deck.self.card_width
            /\ sh.out.pastes[k].y = (i \div sh.cols) * deck.self.card_height }

\* the two examples of the TTS convention
DeckExamples ==
    (deck.pc = "done" /\ deck.cards_per_sheet = 70 /\ deck.cols = 10) =>
        /\ Total = 23 =>
             /\ Len(Sheets) = 1
             /\ Sheets[1].rows = 3
             /\ BlankCells(Sheets[1]) = 23..29
        /\ Total = 140 =>
             /\ Len(Sheets) = 2
             /\ \A i \in 1..2 :
                    /\ Sheets[i].rows = 7 /\ Sheets[i].cols = 10
                    /\ BlankCells(Sheets[i]) = {}
                    /\ ImageCells(Sheets[i]) = 0..69

\* C10 as stated: each sheet has rows = ceil(chunkSize/cols), so rows*cols >=
\* chunkSize, and rows*cols - chunkSize < cols placeholder cells, all at the end
\* of the last row; 23 images (70 per sheet, 10 columns) give 1 sheet of 3 rows
\* with 7 placeholders, 140 images 2 sheets of 7 x 10 without placeholder.
C10_PlaceholdersBelowCols ==
    (deck.pc = "done") =>
        /\ \A i \in 1..Len(Sheets) :
               LET sh == Sheets[i]
                   chunkSize == Len(sh.sheet_images)
               IN /\ sh.rows = CeilDiv(chunkSize, deck.cols)
                  /\ sh.rows * deck.cols >= chunkSize
                  /\ sh.out.composed =>
                       /\ Cardinality(BlankCells(sh)) = sh.rows * deck.cols - chunkSize
                       /\ Cardinality(BlankCells(sh)) < deck.cols
                       /\ BlankCells(sh) = chunkSize..(sh.rows * deck.cols - 1)
        /\ DeckExamples

\* C10 amended: each sheet has rows = ceil(chunkSize/cols), so rows*cols >=
\* chunkSize; a composed sheet has rows*cols - loaded placeholder cells, the
\* last cells of the grid, where loaded is the number of the chunk's images
\* that could be loaded; when all of them load these are rows*cols - chunkSize
\* < cols cells at the end of the last row.  The two examples hold as stated.
C10_PlaceholdersAfterLoaded ==
    (deck.pc = "done") =>
        /\ \A i \in 1..Len(Sheets) :
               LET sh == Sheets[i]
                   chunkSize == Len(sh.sheet_images)
                   loaded == Cardinality({ j \in 1..chunkSize : sh.sheet_images[j].ok })
               IN /\ sh.rows = CeilDiv(chunkSize, deck.cols)
                  /\ sh.rows * deck.cols >= chunkSize
                  /\ sh.out.composed <=> loaded >= 1
                  /\ sh.out.composed =>
                       /\ BlankCells(sh) = loaded..(sh.rows * deck.cols - 1)
                       /\ ImageCells(sh) = 0..(loaded - 1)
                       /\ loaded = chunkSize =>
                            /\ Cardinality(BlankCells(sh)) = sh.rows * deck.cols - chunkSize
                            /\ Cardinality(BlankCells(sh)) < deck.cols
                            /\ \A c \in BlankCells(sh) : c \div deck.cols = sh.rows - 1
        /\ DeckExamples

\* a sheet of four images in three columns, all loaded: two rows, and two
\* placeholders in the last two cells
C10_Witness ==
    /\ deck.pc = "done"
    /\ Total = 4
    /\ deck.cols = 3
    /\ Len(Sheets) = 1
    /\ Sheets[1].rows = 2
    /\ Sheets[1].out.composed
    /\ \A j \in 1..4 : deck.image_paths[j].ok
    /\ BlankCells(Sheets[1]) = {4, 5}

----------------------------------------------------------------------------
(* One overlay of an art image on a card image *)

\* largest width and height of the small art images
MaxArtSize == 4
\* largest width and height of the small bounds rectangles
MaxBoundsSize == 4

\* an RGBA image file: its size and its alpha channel, which is 255 everywhere
\* (opaque), 128 everywhere (soft), or 0 inside a window in the middle and 255
\* around it (window)
Img(w, h, alpha) == [ok |-> TRUE, w |-> w, h |-> h, alpha |-> alpha]
\* a file that Image.open cannot read
Unreadable == [ok |-> FALSE, w |-> 0, h |-> 0, alpha |-> "opaque"]

SmallBases == { Img(4, 6, a) : a \in {"opaque", "window", "soft"} }
SmallArts ==
    { Img(w, h, "opaque") : w \in 1..MaxArtSize, h \in 1..MaxArtSize }
    \cup { Img(2, 3, "soft"), Img(4, 4, "window") }

\* the values of bounds['horizontal'] and bounds['vertical'] the calls are made with
Alignments ==
    { <<hz, vt>> : hz \in {"left", "center", "right"}, vt \in {"top", "center", "bottom"} }
    \cup { <<Absent, Absent>>, <<"middle", "left">> }

MkBounds(x, y, width, height, type, al) ==
    [x |-> x, y |-> y, width |-> width, height |-> height, type |-> type,
     horizontal |-> al[1], vertical |-> al[2]]

\* the calls of overlay_art_on_card_with_bounds: small images with every small
\* rectangle, a card of 1500 x 2100 with the rectangle (100, 100, 1300, 1600),
\* a bounds dict without keys, and files that cannot be read
BoundsCalls ==
    { [base |-> b, art |-> a, bounds |-> MkBounds(Some(xy[1]), Some(xy[2]), Some(bw), Some(bh), t, al)] :
        b \in SmallBases, a \in SmallArts, xy \in { <<0, 0>>, <<1, 2>> },
        bw \in 1..MaxBoundsSize, bh \in 1..MaxBoundsSize,
        t \in {"fill", "fit", Absent}, al \in Alignments }
    \cup
    { [base |-> Img(1500, 2100, "window"), art |-> a,
       bounds |-> MkBounds(Some(100), Some(100), Some(1300), Some(1600), t, al)] :
        a \in { Img(800, 400, "opaque"), Img(2000, 1000, "opaque") },
        t \in {"fill", "fit"}, al \in Alignments }
    \cup
    { [base |-> b, art |-> a, bounds |-> MkBounds(None, None, None, None, Absent, <<Absent, Absent>>)] :
        b \in SmallBases \cup {Unreadable}, a \in SmallArts \cup {Unreadable} }

\* margin_ratio as a fraction: 0.05 (the default), 0.0 and 0.25
MarginRatios == { Frac(1, 20), Frac(0, 1), Frac(1, 4) }

\* the calls of overlay_art_on_card
FallbackCalls ==
    { [base |-> b, art |-> a, margin_ratio |-> m] :
        b \in SmallBases \cup { Img(20, 30, "window"), Img(1500, 2100, "window"), Unreadable },
        a \in SmallArts \cup { Img(800, 400, "opaque"), Img(1400, 2000, "soft"), Unreadable },
        m \in MarginRatios }

CallOverlayWithBounds(c) ==
    /\ overlay.pc = "idle"
    /\ overlay' = [pc |-> "done", op |-> "overlay_art_on_card_with_bounds",
                   base |-> c.base, art |-> c.art, bounds |-> c.bounds,
                   margin_ratio |-> Frac(0, 1),
                   out |-> overlay_art_on_card_with_bounds(c.base, c.art, c.bounds)]
    /\ UNCHANGED <<heap, template, template_file, cards, last, calls, stitch, deck, again, batch, auto, helper, schema, gui>>

CallOverlayOnCard(c) ==
    /\ overlay.pc = "idle"
    /\ overlay' = [pc |-> "done", op |-> "overlay_art_on_card",
                   base |-> c.base, art |-> c.art,
                   bounds |-> MkBounds(None, None, None, None, Absent, <<Absent, Absent>>),
                   margin_ratio |-> c.margin_ratio,
                   out |-> overlay_art_on_card(c.base, c.art, c.margin_ratio)]
    /\ UNCHANGED <<heap, template, template_file, cards, last, calls, stitch, deck, again, batch, auto, helper, schema, gui>>

OverlayWithBounds == overlay.pc = "idle" /\ \E c \in BoundsCalls : CallOverlayWithBounds(c)
OverlayOnCard == overlay.pc = "idle" /\ \E c \in FallbackCalls : CallOverlayOnCard(c)

NextOverlay == OverlayWithBounds \/ OverlayOnCard

SpecOverlay == InitStitch /\ [][NextOverlay]_vars

\* an overlay that composed and saved an image
Overlaid == overlay.pc = "done" /\ overlay.out.ret
WithBounds == Overlaid /\ overlay.op = "overlay_art_on_card_with_bounds"
Fallback == Overlaid /\ overlay.op = "overlay_art_on_card"

\* the bounds rectangle of the last call
BoundsX == IF overlay.bounds.x.some THEN overlay.bounds.x.v ELSE 0
BoundsY == IF overlay.bounds.y.some THEN overlay.bounds.y.v ELSE 0
BoundsWidth == IF overlay.bounds.width.some THEN overlay.bounds.width.v ELSE overlay.base.w
BoundsHeight == IF overlay.bounds.height.some THEN overlay.bounds.height.v ELSE overlay.base.h

\* C14: for every art size and every bounds rectangle with width, height >= 1:
\* with placement fill the resized art is at least as wide and as high as the
\* rectangle (1 pixel of slack allowed); with any other placement (fit) it is
\* at most as wide and as high as the rectangle and as the original art.
C14_FillCoversFitContains ==
    (WithBounds /\ BoundsWidth >= 1 /\ BoundsHeight >= 1) =>
        IF overlay.bounds.type = "fill"
        THEN /\ overlay.out.new_w + 1 >= BoundsWidth
             /\ overlay.out.new_h + 1 >= BoundsHeight
        ELSE /\ overlay.out.new_w <= BoundsWidth
             /\ overlay.out.new_h <= BoundsHeight
             /\ overlay.out.new_w <= overlay.art.w
             /\ overlay.out.new_h <= overlay.art.h

\* a fill of a 2 x 2 rectangle with an art of 4 x 1: the art is scaled up to
\* 8 x 2 and exceeds the rectangle in width
C14_Witness ==
    /\ WithBounds
    /\ overlay.bounds.type = "fill"
    /\ overlay.art.w = 4 /\ overlay.art.h = 1
    /\ BoundsWidth = 2 /\ BoundsHeight = 2
    /\ overlay.out.new_w = 8 /\ overlay.out.new_h = 2

\* q is max(1, k * scale truncated), for k * scale >= 0
IsTruncatedFloored(q, k, scale) ==
    \/ q >= 1 /\ q * scale.d <= k * scale.n /\ k * scale.n < (q + 1) * scale.d
    \/ q = 1 /\ k * scale.n < scale.d

\* q is max(1, round(k * scale))
IsRoundedFloored(q, k, scale) ==
    q = IF RoundOfProduct(k, scale) >= 1 THEN RoundOfProduct(k, scale) ELSE 1

\* C15 as stated: the resized art dimensions are round(art.width*scale) and
\* round(art.height*scale), each floored at 1 pixel.
C15_ResizedRounded ==
    Overlaid =>
        /\ IsRoundedFloored(overlay.out.new_w, overlay.art.w, overlay.out.scale)
        /\ IsRoundedFloored(overlay.out.new_h, overlay.art.h, overlay.out.scale)

\* C15 amended: the resized art dimensions are art.width*scale and
\* art.height*scale truncated to an integer (not rounded), each floored at 1
\* pixel, in both overlays; each is the rounded value or one pixel less.
C15_ResizedTruncated ==
    Overlaid =>
        /\ IsTruncatedFloored(overlay.out.new_w, overlay.art.w, overlay.out.scale)
        /\ IsTruncatedFloored(overlay.out.new_h, overlay.art.h, overlay.out.scale)
        /\ \A q \in {overlay.out.new_w} :
               IsRoundedFloored(q, overlay.art.w, overlay.out.scale)
               \/ IsRoundedFloored(q + 1, overlay.art.w, overlay.out.scale)
        /\ \A q \in {overlay.out.new_h} :
               IsRoundedFloored(q, overlay.art.h, overlay.out.scale)
               \/ IsRoundedFloored(q + 1, overlay.art.h, overlay.out.scale)

\* an art of 3 x 4 fitted into a rectangle 2 wide: scale 2/3, height 4 * 2/3 =
\* 2.67 becomes 2, where rounding gives 3
C15_Witness ==
    /\ WithBounds
    /\ overlay.art.w = 3 /\ overlay.art.h = 4
    /\ overlay.out.scale.n * 3 = overlay.out.scale.d * 2
    /\ overlay.out.new_w = 2
    /\ overlay.out.new_h = 2
    /\ RoundOfProduct(overlay.art.h, overlay.out.scale) = 3

\* the example of the claim: base 1500 x 2100, bounds (100, 100, 1300, 1600)
\* with placement fit, art 800 x 400, centred
AlignExampleCall ==
    /\ WithBounds
    /\ overlay.base.w = 1500 /\ overlay.base.h = 2100
    /\ BoundsX = 100 /\ BoundsY = 100 /\ BoundsWidth = 1300 /\ BoundsHeight = 1600
    /\ overlay.bounds.type = "fit"
    /\ overlay.art.w = 800 /\ overlay.art.h = 400
    /\ overlay.bounds.horizontal \in {"center", Absent}
    /\ overlay.bounds.vertical \in {"center", Absent}

\* C16: the art's left edge is bounds.x for 'left', bounds.x + bounds.width -
\* resizedWidth for 'right' and bounds.x + (bounds.width - resizedWidth) div 2
\* otherwise (center, the default); the top edge likewise from bounds.y,
\* bounds.height, resizedHeight and top / bottom / center.  The example gives
\* scale 1, size 800 x 400, x = 350, y = 700.
C16_Alignment ==
    WithBounds =>
        /\ overlay.out.x =
             CASE overlay.bounds.horizontal = "left" -> BoundsX
               [] overlay.bounds.horizontal = "right" -> BoundsX + BoundsWidth - overlay.out.new_w
               [] OTHER -> BoundsX + ((BoundsWidth - overlay.out.new_w) \div 2)
        /\ overlay.out.y =
             CASE overlay.bounds.vertical = "top" -> BoundsY
               [] overlay.bounds.vertical = "bottom" -> BoundsY + BoundsHeight - overlay.out.new_h
               [] OTHER -> BoundsY + ((BoundsHeight - overlay.out.new_h) \div 2)
        /\ AlignExampleCall =>
             /\ overlay.out.scale.n = overlay.out.scale.d
             /\ overlay.out.new_w = 800 /\ overlay.out.new_h = 400
             /\ overlay.out.x = 350 /\ overlay.out.y = 700

\* the example, with no alignment given in the bounds
C16_Witness ==
    /\ AlignExampleCall
    /\ overlay.bounds.horizontal = Absent
    /\ overlay.out.x = 350
    /\ overlay.out.y = 700

\* the alpha of the pixel (px, py) of an image of size w x h
AlphaAt(alpha, w, h, px, py) ==
    CASE alpha = "opaque" -> 255
      [] alpha = "soft" -> 128
      [] alpha = "window" ->
           IF /\ w \div 4 <= px /\ px < w - (w \div 4)
              /\ h \div 4 <= py /\ py < h - (h \div 4)
           THEN 0 ELSE 255

RECURSIVE PixelAfter(_, _, _, _)
\* Image.paste(im, (x, y), im), applied k times: the pixel (px, py) of the
\* canvas after the first k pastes, as the layers that show in it from the
\* bottom up (none: the transparent canvas).  A paste leaves the pixel alone
\* outside its box and where its mask is 0, replaces it where the mask is 255
\* and blends over it otherwise.  The pixels of a pasted image that an overlay
\* saved (of binary alpha) are the layers that show in that image.
PixelAfter(pastes, k, px, py) ==
    IF k = 0 THEN <<>>
    ELSE LET p == pastes[k]
             under == PixelAfter(pastes, k - 1, px, py)
             inside == /\ p.x <= px /\ px < p.x + p.w
                       /\ p.y <= py /\ py < p.y + p.h
             file == p.alpha \in {"saved", "flattened"}
             src == PixelAfter(p.img.from, Len(p.img.from), px - p.x, py - p.y)
             a == IF ~inside THEN 0
                  ELSE IF p.alpha = "flattened" THEN 255
                  ELSE IF p.alpha = "saved" THEN (IF src = <<>> THEN 0 ELSE 255)
                  ELSE AlphaAt(p.alpha, p.w, p.h, px - p.x, py - p.y)
             shown == IF ~file THEN << [what |-> p.what, a |-> 255] >>
                      ELSE IF src = <<>> THEN << [what |-> "black", a |-> 255] >>
                      ELSE src
         IN IF a = 0 THEN under
            ELSE IF a = 255 THEN shown
            ELSE Append(under, [what |-> p.what, a |-> a])

\* the pixel (px, py) of the image the last overlay saved
PixelOut(px, py) ==
    PixelAfter(overlay.out.composed.pastes, Len(overlay.out.composed.pastes), px, py)

\* the layer what shows in the pixel q
ShowsIn(q, what) == \E i \in 1..Len(q) : q[i].what = what

BaseAlphaAt(px, py) ==
    AlphaAt(overlay.base.alpha, overlay.base.w, overlay.base.h, px, py)

\* the pixels looked at: all of a small image, a grid of points of a large one
PixelsOf(w, h) ==
    IF w * h <= 1000 THEN (0..(w - 1)) \X (0..(h - 1))
    ELSE { p \in {0, 88, 100, 350, 374, 375, 749, 1124, 1125, 1149, 1150, 1411, w - 1}
                  \X {0, 105, 524, 525, 700, 1099, 1100, 1574, 1575, 1994, 1995, h - 1} :
             p[1] < w /\ p[2] < h }

\* C17: the output has the size of the base; the resized art is pasted first
\* onto a fully transparent canvas and the base on top of it afterwards, so at
\* every pixel where the base is opaque the output shows the base alone, and
\* the art shows only where the base is transparent (not opaque); this holds
\* for the bounds-driven and for the fallback overlay.
C17_ArtUnderBase ==
    Overlaid =>
        /\ overlay.out.composed.size = [w |-> overlay.base.w, h |-> overlay.base.h]
        /\ Len(overlay.out.composed.pastes) = 2
        /\ overlay.out.composed.pastes[1].what = "art"
        /\ overlay.out.composed.pastes[1].x = overlay.out.x
        /\ overlay.out.composed.pastes[1].y = overlay.out.y
        /\ overlay.out.composed.pastes[1].w = overlay.out.new_w
        /\ overlay.out.composed.pastes[1].h = overlay.out.new_h
        /\ overlay.out.composed.pastes[2].what = "base"
        /\ \A p \in PixelsOf(overlay.base.w, overlay.base.h) :
             \A q \in {PixelOut(p[1], p[2])}, b \in {BaseAlphaAt(p[1], p[2])} :
               /\ b = 255 => q = << [what |-> "base", a |-> 255] >>
               /\ ShowsIn(q, "art") => b < 255
               /\ b = 0 =>
                      (ShowsIn(q, "art") <=>
                          /\ overlay.out.x <= p[1] /\ p[1] < overlay.out.x + overlay.out.new_w
                          /\ overlay.out.y <= p[2] /\ p[2] < overlay.out.y + overlay.out.new_h
                          /\ AlphaAt(overlay.art.alpha, overlay.out.new_w, overlay.out.new_h,
                                     p[1] - overlay.out.x, p[2] - overlay.out.y) > 0)

\* a fill on a base with a transparent window: the art covers the whole base,
\* shows in the window and is hidden by the opaque frame around it
C17_Witness ==
    /\ WithBounds
    /\ overlay.bounds.type = "fill"
    /\ overlay.base.alpha = "window"
    /\ overlay.out.x <= 0 /\ overlay.out.y <= 0
    /\ overlay.out.x + overlay.out.new_w >= overlay.base.w
    /\ overlay.out.y + overlay.out.new_h >= overlay.base.h
    /\ PixelOut(1, 1) = << [what |-> "art", a |-> 255] >>
    /\ PixelOut(0, 0) = << [what |-> "base", a |-> 255] >>

\* q is k * (1 - 2 * margin_ratio) truncated
IsMarginReduced(q, k, m) ==
    q * m.d <= k * (m.d - 2 * m.n) /\ k * (m.d - 2 * m.n) < (q + 1) * m.d

C27_PlacedInsideOrCovering ==
    (/\ WithBounds /\ BoundsWidth >= 1 /\ BoundsHeight >= 1
     /\ overlay.bounds.horizontal \in {"left", "center", "right"}
     /\ overlay.bounds.vertical \in {"top", "center", "bottom"}) =>
        LET x == overlay.out.x
            y == overlay.out.y
            new_w == overlay.out.new_w
            new_h == overlay.out.new_h
        IN /\ (overlay.bounds.type = "fit") =>
                 /\ BoundsX <= x /\ x + new_w <= BoundsX + BoundsWidth
                 /\ BoundsY <= y /\ y + new_h <= BoundsY + BoundsHeight
           /\ (overlay.bounds.type = "fill") =>
                 /\ x <= BoundsX + 1 /\ x + new_w + 1 >= BoundsX + BoundsWidth
                 /\ y <= BoundsY + 1 /\ y + new_h + 1 >= BoundsY + BoundsHeight

\* a fit of an art of 4 x 1 in the rectangle (1, 2, 2, 2), centred and at the
\* bottom: the art becomes 2 x 1 and is placed at (1, 3), on the lower edge
C27_Witness ==
    /\ WithBounds
    /\ overlay.bounds.type = "fit"
    /\ overlay.bounds.horizontal = "center" /\ overlay.bounds.vertical = "bottom"
    /\ overlay.art.w = 4 /\ overlay.art.h = 1
    /\ BoundsX = 1 /\ BoundsY = 2 /\ BoundsWidth = 2 /\ BoundsHeight = 2
    /\ overlay.out.new_w = 2 /\ overlay.out.new_h = 1
    /\ overlay.out.x = 1 /\ overlay.out.y = 3


----------------------------------------------------------------------------
(* An overlay run in place, and run once more on the file it saved *)

\* the calls made on images of binary alpha: a base with a transparent window
\* and an art that is opaque or has a window
BinaryCalls(S) == { c \in S : c.base.ok /\ c.art.ok /\ c.base.alpha = "window" /\ c.art.alpha # "soft" }

\* the first run, of the one overlay or of the other
FirstOverlay ==
    /\ overlay.pc = "idle"
    /\ \/ \E c \in BinaryCalls(BoundsCalls) : CallOverlayWithBounds(c)
       \/ \E c \in BinaryCalls(FallbackCalls) : CallOverlayOnCard(c)

\* the same overlay called again with the same art and bounds (or margin), the
\* base card being the file the first run saved in place: a .png or not
OverlayAgain ==
    /\ overlay.pc = "done"
    /\ overlay.out.ret
    /\ again.pc = "idle"
    /\ \E png \in BOOLEAN :
          again' = [pc |-> "done", png |-> png,
                    out |-> IF overlay.op = "overlay_art_on_card_with_bounds"
                            THEN overlay_art_on_card_with_bounds(
                                     Saved(overlay.out, png), overlay.art, overlay.bounds)
                            ELSE overlay_art_on_card(
                                     Saved(overlay.out, png), overlay.art,
                                     overlay.margin_ratio)]
    /\ UNCHANGED <<heap, template, template_file, cards, last, calls, stitch, deck, overlay, batch, auto, helper, schema, gui>>

NextTwice == FirstOverlay \/ OverlayAgain

SpecTwice == InitStitch /\ [][NextTwice]_vars

\* the pixel (px, py) of the file saved from the canvas of these pastes: what
\* shows in it, and black for a transparent pixel of a file that is no .png
SavedPixel(pastes, png, px, py) ==
    LET q == PixelAfter(pastes, Len(pastes), px, py)
    IN IF ~png /\ q = <<>> THEN << [what |-> "black", a |-> 255] >> ELSE q

\* C29: an in-place overlay is idempotent at the level of pixel coverage (alpha
\* binary: each pixel base, art or transparent): run a second time with the
\* same art and bounds on the file the first run produced,
\* overlay_art_on_card_with_bounds and overlay_art_on_card yield the same image
\* as the first run, of the same size and the same at every pixel.
C29_SecondRunSameImage ==
    (again.pc = "done") =>
        /\ again.out.ret
        /\ again.out.composed.size = overlay.out.composed.size
        /\ \A p \in PixelsOf(overlay.base.w, overlay.base.h) :
              SavedPixel(again.out.composed.pastes, again.png, p[1], p[2])
                 = SavedPixel(overlay.out.composed.pastes, again.png, p[1], p[2])

\* a fit of an opaque art of 2 x 2 at the top left of a 4 x 6 base with a
\* window, saved as .png and overlaid again: the art shows in the window at
\* (1, 2), the frame at (0, 0), the window is still transparent at (2, 3)
C29_Witness ==
    /\ again.pc = "done" /\ again.png
    /\ overlay.op = "overlay_art_on_card_with_bounds"
    /\ overlay.base.w = 4 /\ overlay.base.h = 6
    /\ overlay.out.x = 0 /\ overlay.out.y = 1
    /\ overlay.out.new_w = 2 /\ overlay.out.new_h = 2
    /\ SavedPixel(again.out.composed.pastes, TRUE, 1, 2) = << [what |-> "art", a |-> 255] >>
    /\ SavedPixel(again.out.composed.pastes, TRUE, 0, 0) = << [what |-> "base", a |-> 255] >>
    /\ SavedPixel(again.out.composed.pastes, TRUE, 2, 3) = <<>>

----------------------------------------------------------------------------
(* One call of overlay_generated_art *)

\* largest number of entries of the art directory and of the source directory
MaxArtFiles == 3
MaxBaseFiles == 2

File(stem, suffix, img) == [stem |-> stem, suffix |-> suffix, img |-> img]

\* the entries an art directory is made of: prefix-related stems, two files of
\* one stem and a file that is no image
ArtEntries ==
    { File("a", ".png", Img(2, 3, "opaque")), File("ab", ".png", Img(3, 3, "opaque")),
      File("abc", ".png", Img(4, 2, "opaque")), File("a", ".jpg", Img(1, 4, "opaque")),
      File("n", ".txt", Unreadable) }

\* the entries a source directory is made of, one of them an image that
\* cannot be read and one no image
BaseEntries ==
    { File("ab", ".png", Img(4, 6, "window")), File("b", ".png", Img(4, 6, "window")),
      File("a", ".JPG", Unreadable), File("notes", ".txt", Unreadable) }

RECURSIVE Listings(_, _)
\* the directory listings of at most n entries of S, in every order
Listings(S, n) ==
    IF n = 0 THEN { <<>> }
    ELSE LET shorter == Listings(S, n - 1)
             longer == { Append(l, e) : l \in { k \in shorter : Len(k) = n - 1 }, e \in S }
         IN shorter \cup { m \in longer : \A i \in 1..(Len(m) - 1) : m[i] # m[Len(m)] }

BatchCalls ==
    { [dirs_exist |-> TRUE, art_dir |-> a, src |-> s, json_stems |-> j, inplace |-> ip] :
        a \in Listings(ArtEntries, MaxArtFiles), s \in Listings(BaseEntries, MaxBaseFiles),
        j \in { {}, {"ab"} }, ip \in BOOLEAN }
    \cup
    { [dirs_exist |-> FALSE, art_dir |-> <<>>, src |-> <<>>, json_stems |-> {}, inplace |-> TRUE] }

CallOverlayGeneratedArt(c) ==
    /\ batch.pc = "idle"
    /\ batch' = [pc |-> "done", dirs_exist |-> c.dirs_exist, art_dir |-> c.art_dir,
                 src |-> c.src, json_stems |-> c.json_stems, inplace |-> c.inplace,
                 out |-> overlay_generated_art(c.dirs_exist, c.art_dir, c.src,
                                               c.json_stems, c.inplace, Frac(1, 20))]
    /\ UNCHANGED <<heap, template, template_file, cards, last, calls, stitch, deck, again, overlay, auto, helper, schema, gui>>

NextBatch == batch.pc = "idle" /\ \E c \in BatchCalls : CallOverlayGeneratedArt(c)

SpecBatch == InitStitch /\ [][NextBatch]_vars

\* the art files and the base images of the last call, in iteration order
ImageEntry(f) == f.suffix \in {".png", ".jpg", ".jpeg", ".JPG"}
ArtListing == SelectSeq(batch.art_dir, ImageEntry)
BaseListing == SelectSeq(batch.src, ImageEntry)
Items == batch.out.items

PrefixRelated(s, t) == StartsWith(s, t) \/ StartsWith(t, s)

\* the positions in ArtListing of the art files with the stem, and of those
\* with a prefix-related stem
ExactArt(stem) == { i \in 1..Len(ArtListing) : ArtListing[i].stem = stem }
FuzzyArt(stem) == { i \in 1..Len(ArtListing) : PrefixRelated(ArtListing[i].stem, stem) }
FirstOf(S) == CHOOSE i \in S : \A j \in S : i <= j
LastOf(S) == CHOOSE i \in S : \A j \in S : j <= i

\* every base image is gone through, in order, whatever happened to the ones
\* before it; one without a prefix-related art file is not written and not
\* counted; the number returned is that of the overlays that succeeded
BatchSkipsUnmatched ==
    /\ Len(Items) = Len(BaseListing)
    /\ \A k \in 1..Len(Items) :
           /\ Items[k].base = BaseListing[k]
           /\ FuzzyArt(Items[k].base.stem) = {} =>
                  ~Items[k].matched /\ ~Items[k].ok /\ Items[k].target = ""
           /\ Items[k].ok => Items[k].matched /\ Items[k].target # ""
    /\ batch.out.ret = Cardinality({ k \in 1..Len(Items) : Items[k].ok })

----------------------------------------------------------------------------
(* The layout core called with any integers *)

\* the calls of create_tabletop_simulator_deck with cards_per_sheet and cols
\* of either sign, 0 included
AnyDeckCalls ==
    { [self |-> SmallStitcher, image_paths |-> MkPaths(n, bad),
       cards_per_sheet |-> cps, cols |-> cols, preset |-> Absent, target_width |-> None] :
        n \in 0..MaxDeckImages, bad \in { {}, {1} },
        cps \in (0 - MaxCardsPerSheet)..MaxCardsPerSheet,
        cols \in (0 - MaxDeckCols)..MaxDeckCols }

\* the listing of a directory of n images (those in bad unreadable), in sorted
\* order or reversed, with or without a file that is no image
DirListing(n, bad, reversed, other) ==
    LET imgs == [i \in 1..n |->
                   [id |-> IF reversed THEN n + 1 - i ELSE i,
                    ok |-> (IF reversed THEN n + 1 - i ELSE i) \notin bad,
                    suffix |-> IF i = 1 THEN ".PNG" ELSE ".png"]]
    IN IF other THEN <<[id |-> 0, ok |-> FALSE, suffix |-> ".txt"]>> \o imgs ELSE imgs

AutoCalls ==
    { [self |-> SmallStitcher, entries |-> DirListing(n, bad, rv, other),
       single_file |-> sf, max_cols |-> max_cols, spacing |-> spacing,
       cards_per_sheet |-> cps, preset |-> Absent, target_width |-> None] :
        n \in 0..MaxDeckImages, bad \in { {}, {1} }, rv \in BOOLEAN, other \in BOOLEAN,
        sf \in BOOLEAN, max_cols \in (0 - MaxDeckCols)..MaxDeckCols,
        spacing \in {0, MaxSpacing},
        cps \in {None} \cup { Some(k) : k \in (0 - 1)..MaxCardsPerSheet } }

CallAutoStitch(c) ==
    /\ auto.pc = "idle"
    /\ auto' = [pc |-> "done", self |-> c.self, entries |-> c.entries,
                single_file |-> c.single_file, max_cols |-> c.max_cols,
                spacing |-> c.spacing, cards_per_sheet |-> c.cards_per_sheet,
                preset |-> c.preset, target_width |-> c.target_width,
                out |-> auto_stitch(c.self, c.entries, c.single_file, c.max_cols,
                                    c.spacing, c.cards_per_sheet, c.preset,
                                    c.target_width)]
    /\ UNCHANGED <<heap, template, template_file, cards, last, calls, stitch, deck, again, overlay, batch, helper, schema, gui>>

\* one call is made, of the one or of the other
NoLayoutCall == deck.pc = "idle" /\ auto.pc = "idle"
DeckWithAnyIntegers == NoLayoutCall /\ \E c \in AnyDeckCalls : CallCreateDeck(c)
AutoStitch == NoLayoutCall /\ \E c \in AutoCalls : CallAutoStitch(c)

NextLayout == DeckWithAnyIntegers \/ AutoStitch

SpecLayout == InitStitch /\ [][NextLayout]_vars

\* C20: no error in the layout core is fatal: for every list of image paths
\* and every integer cards_per_sheet and cols (0 and negative values included)
\* create_tabletop_simulator_deck and auto_stitch return normally (a list of
\* sheet paths, resp. a boolean) instead of raising to the caller, just as
\* stitch_images reports every failure through its boolean result.
C20_NothingRaised ==
    /\ (deck.pc = "done") =>
          /\ ~deck.out.raised
          /\ \A i \in 1..Len(deck.out.sheets) : deck.out.sheets[i].out.ret \in BOOLEAN
    /\ (auto.pc = "done") => (~auto.out.raised /\ auto.out.ret \in BOOLEAN)

\* the sheets an auto_stitch call composed
AutoSheets == { i \in 1..Len(auto.out.sheets) : auto.out.sheets[i].out.composed }

\* C23: auto_stitch(image_dir, output_path, max_cols, spacing = s) lays out its
\* sheets with gutter s between cards: every sheet canvas it produces is
\* max_cols*card_width + (max_cols-1)*s wide and rows*card_height + (rows-1)*s
\* high, with card i of the sheet at x = (i mod cols)*(card_width + s).
C23_AutoStitchGutter ==
    (auto.pc = "done" /\ ~auto.out.raised) =>
        \A i \in AutoSheets :
            LET sh == auto.out.sheets[i]
                s == auto.spacing
            IN /\ sh.out.canvas_width
                    = auto.max_cols * auto.self.card_width + (auto.max_cols - 1) * s
               /\ sh.out.canvas_height
                    = sh.rows * auto.self.card_height + (sh.rows - 1) * s
               /\ \A j \in 1..Len(sh.out.pastes) :
                     sh.out.pastes[j].x
                        = ((j - 1) % auto.max_cols) * (auto.self.card_width + s)

-----------------------------------------------------------------------------
(* Batch generation: generate_from_excel, simple_generator.main and the MCP
   tool generate_cards_batch.  A record is [card_name, class_type]; the other
   columns only fill text fields and cannot fail.  What a run leaves behind is
   the sequence of files it wrote (a later write to the same name replaces the
   earlier file) and the count or summary it reports. *)

\* a value that is not a str: a pandas NaN cell, a JSON number
NotAString == "<not a str>"

\* str.isalnum() of one character
IsAlnum(c) == IsLower(c) \/ IsUpper(c) \/ IndexFrom(c, "0123456789", 1) # 0

\* "".join(c for c in card_name if c.isalnum() or c in (' ', '-', '_'))
\*    .strip().replace(' ', '_')
safe_name(card_name) ==
    LET kept[i \in 0..Len(card_name)] ==
            IF i = 0 THEN ""
            ELSE LET c == CharAt(card_name, i)
                 IN  kept[i - 1] \o (IF IsAlnum(c) \/ c \in {" ", "-", "_"} THEN c ELSE "")
        joined == kept[Len(card_name)]
        solid == { i \in 1..Len(joined) : CharAt(joined, i) # " " }
        stripped == IF solid = {} THEN ""
                    ELSE SubSeq(joined, CHOOSE i \in solid : \A j \in solid : i <= j,
                                        CHOOSE i \in solid : \A j \in solid : i >= j)
        replaced[i \in 0..Len(stripped)] ==
            IF i = 0 THEN ""
            ELSE replaced[i - 1] \o (IF CharAt(stripped, i) = " " THEN "_" ELSE CharAt(stripped, i))
    IN  replaced[Len(stripped)]

\* generate_card / generate_single_card raise when class_type is truthy and
\* has no lower(): update_class_frame calls class_type.lower() on the frame
generate_card_raises(row) == row.class_type = NotAString

\* for idx, row in df.iterrows(): try: ... success_count += 1 except: print
\* (simple_generator.main runs the same loop over csv.DictReader rows).
\* has_name_column: the table has a card_name column; without it every row
\* takes the name card_{idx+1}.
generate_from_excel(rows, has_name_column) ==
    LET loop[n \in 0..Len(rows)] ==
            IF n = 0 THEN [writes |-> <<>>, success_count |-> 0]
            ELSE LET before == loop[n - 1]
                     row == rows[n]
                     card_name == IF has_name_column THEN row.card_name
                                  ELSE "card_" \o ToString(n)
                 IN  IF generate_card_raises(row) \/ card_name = NotAString
                     THEN before
                     ELSE [writes |-> Append(before.writes, safe_name(card_name) \o ".json"),
                           success_count |-> before.success_count + 1]
    IN  loop[Len(rows)]

\* the MCP tool with every card failing after the first failure (not the code)
generate_cards_batch_stops(cards_list, template_loads) ==
    LET loop[n \in 0..Len(cards_list)] ==
            IF n = 0 THEN [writes |-> <<>>, results |-> <<>>, stopped |-> FALSE]
            ELSE LET before == loop[n - 1]
                     card_params == cards_list[n]
                     raised == \/ ~template_loads
                               \/ generate_card_raises(card_params)
                               \/ card_params.card_name \in {Absent, NotAString}
                               \/ before.stopped
                 IN  IF raised
                     THEN [writes |-> before.writes,
                           results |-> Append(before.results,
                                [index |-> n - 1,
                                 card_name |-> IF card_params.card_name = Absent
                                               THEN "card_" \o ToString(n - 1)
                                               ELSE card_params.card_name,
                                 status |-> "error"]),
                           stopped |-> TRUE]
                     ELSE [writes |-> Append(before.writes,
                                safe_name(card_params.card_name) \o ".json"),
                           results |-> Append(before.results,
                                [index |-> n - 1, card_name |-> card_params.card_name,
                                 status |-> "success",
                                 output_file |-> safe_name(card_params.card_name) \o ".json"]),
                           stopped |-> FALSE]
        results == loop[Len(cards_list)].results
    IN  [writes |-> loop[Len(cards_list)].writes,
         total_cards |-> Len(cards_list),
         successful |-> Cardinality({ i \in 1..Len(results) : results[i].status = "success" }),
         failed |-> Cardinality({ i \in 1..Len(results) : results[i].status = "error" }),
         results |-> results]

\* call_tool, name == "generate_cards_batch": for idx, card_params in
\* enumerate(cards_list): try: generate_single_card; save_card_to_file(...,
\* card_params['card_name']); results.append(success) except: results.append(
\* error with card_params.get('card_name', f'card_{idx}')); then the summary.
\* template_loads: load_template finds and parses the template.
generate_cards_batch(cards_list, template_loads) ==
    LET loop[n \in 0..Len(cards_list)] ==
            IF n = 0 THEN [writes |-> <<>>, results |-> <<>>]
            ELSE LET before == loop[n - 1]
                     card_params == cards_list[n]
                     raised == \/ ~template_loads
                               \/ generate_card_raises(card_params)
                               \/ card_params.card_name \in {Absent, NotAString}
                 IN  IF raised
                     THEN [writes |-> before.writes,
                           results |-> Append(before.results,
                                [index |-> n - 1,
                                 card_name |-> IF card_params.card_name = Absent
                                               THEN "card_" \o ToString(n - 1)
                                               ELSE card_params.card_name,
                                 status |-> "error"])]
                     ELSE [writes |-> Append(before.writes,
                                safe_name(card_params.card_name) \o ".json"),
                           results |-> Append(before.results,
                                [index |-> n - 1, card_name |-> card_params.card_name,
                                 status |-> "success",
                                 output_file |-> safe_name(card_params.card_name) \o ".json"])]
        results == loop[Len(cards_list)].results
    IN  [writes |-> loop[Len(cards_list)].writes,
         total_cards |-> Len(cards_list),
         successful |-> Cardinality({ i \in 1..Len(results) : results[i].status = "success" }),
         failed |-> Cardinality({ i \in 1..Len(results) : results[i].status = "error" }),
         results |-> results]

\* the card names and class types the batches are drawn from
CardNames == {" Fire Ball!", "Fire_Ball", NotAString}

RECURSIVE RecordLists(_, _)
RecordLists(names, n) ==
    IF n = 0 THEN {<<>>}
    ELSE LET shorter == RecordLists(names, n - 1)
         IN  shorter \cup { Append(l, [card_name |-> c, class_type |-> k]) :
                            l \in { s \in shorter : Len(s) = n - 1 },
                            c \in names, k \in {"ninja", NotAString} }

\* One run of generate_from_excel over a table that was read.
GenerateFromExcel ==
    /\ helper.pc = "idle"
    /\ \E has_name_column \in BOOLEAN :
       \E rows \in RecordLists(IF has_name_column THEN CardNames ELSE {Absent}, MaxRecords) :
            helper' = [pc |-> "done", op |-> "generate_from_excel", rows |-> rows,
                       has_name_column |-> has_name_column,
                       out |-> generate_from_excel(rows, has_name_column)]
    /\ UNCHANGED <<heap, template, template_file, cards, last, calls, stitch, deck, again, overlay, batch, auto, schema, gui>>

\* One call of the MCP tool generate_cards_batch with a non-empty list.
GenerateCardsBatch ==
    /\ helper.pc = "idle"
    /\ \E template_loads \in BOOLEAN :
       \E cs \in RecordLists(CardNames \cup {Absent}, MaxRecords) \ {<<>>} :
            helper' = [pc |-> "done", op |-> "generate_cards_batch", rows |-> cs,
                       template_loads |-> template_loads,
                       out |-> generate_cards_batch(cs, template_loads)]
    /\ UNCHANGED <<heap, template, template_file, cards, last, calls, stitch, deck, again, overlay, batch, auto, schema, gui>>

-----------------------------------------------------------------------------
(* The helpers that call the AI image collaborator.  Time is a clock in
   seconds; generate_and_save takes CallTime seconds; calls[k] records the
   item an invocation was for and when it started and ended.  An item of the
   input is the way it turns out:
     "saved"       generate_and_save returns True
     "failed"      generate_and_save returns a falsy value
     "write_fails" the image is saved, writing the card's JSON back raises
     "exists"      the target image is already on disk
     "unreadable"  the card's JSON cannot be loaded *)

CallTime == 1

\* batch_generate_card_art(cards_data, output_dir, delay)
batch_generate_card_art(cards_data, delay) ==
    LET loop[n \in 0..Len(cards_data)] ==
            IF n = 0 THEN [clock |-> 0, calls |-> <<>>, results |-> {}]
            ELSE LET before == loop[n - 1]
                     ended == before.clock + CallTime
                 IN  [clock |-> IF n - 1 < Len(cards_data) - 1 THEN ended + delay ELSE ended,
                      calls |-> Append(before.calls, [item |-> n, start |-> before.clock, end |-> ended]),
                      results |-> IF cards_data[n] = "saved" THEN before.results \cup {n}
                                  ELSE before.results]
    IN  loop[Len(cards_data)]

\* enhance_existing_cards(json_dir, output_dir, update_json, ..., skip_if_exists):
\* for json_file in json_files: try: load; [continue if the image exists];
\* generate_and_save; [update and rewrite the JSON]; time.sleep(2.0)
\* except Exception: print
enhance_existing_cards(json_files, update_json, skip_if_exists) ==
    LET loop[n \in 0..Len(json_files)] ==
            IF n = 0 THEN [clock |-> 0, calls |-> <<>>, success_count |-> 0]
            ELSE LET before == loop[n - 1]
                     f == json_files[n]
                     ended == before.clock + CallTime
                     called == Append(before.calls, [item |-> n, start |-> before.clock, end |-> ended])
                 IN  IF f = "unreadable" THEN before
                     ELSE IF skip_if_exists /\ f = "exists" THEN before
                     ELSE IF f = "failed"
                     THEN [clock |-> ended + 2, calls |-> called, success_count |-> before.success_count]
                     ELSE IF update_json /\ f = "write_fails"
                     THEN [clock |-> ended, calls |-> called, success_count |-> before.success_count + 1]
                     ELSE [clock |-> ended + 2, calls |-> called, success_count |-> before.success_count + 1]
    IN  loop[Len(json_files)]

\* call_tool, name == "generate_ai_artwork": for idx, card_data in
\* enumerate(cards_data): generate_and_save; results.append; sleep(2) unless last
generate_ai_artwork(cards_data) ==
    LET loop[n \in 0..Len(cards_data)] ==
            IF n = 0 THEN [clock |-> 0, calls |-> <<>>, results |-> <<>>]
            ELSE LET before == loop[n - 1]
                     ended == before.clock + CallTime
                 IN  [clock |-> IF n - 1 < Len(cards_data) - 1 THEN ended + 2 ELSE ended,
                      calls |-> Append(before.calls, [item |-> n, start |-> before.clock, end |-> ended]),
                      results |-> Append(before.results,
                            IF cards_data[n] = "saved" THEN "success" ELSE "failed")]
    IN  loop[Len(cards_data)]

RECURSIVE ItemLists(_, _)
ItemLists(kinds, n) ==
    IF n = 0 THEN {<<>>}
    ELSE LET shorter == ItemLists(kinds, n - 1)
         IN  shorter \cup { Append(l, k) : l \in { s \in shorter : Len(s) = n - 1 }, k \in kinds }

BatchGenerateCardArt ==
    /\ helper.pc = "idle"
    /\ \E cards_data \in ItemLists({"saved", "failed"}, MaxRecords), delay \in {1, 2} :
            helper' = [pc |-> "done", op |-> "batch_generate_card_art", rows |-> cards_data,
                       delay |-> delay, out |-> batch_generate_card_art(cards_data, delay)]
    /\ UNCHANGED <<heap, template, template_file, cards, last, calls, stitch, deck, again, overlay, batch, auto, schema, gui>>

\* an empty directory returns 0 before the loop
EnhanceExistingCards ==
    /\ helper.pc = "idle"
    /\ \E json_files \in ItemLists({"saved", "failed", "write_fails", "exists", "unreadable"}, MaxRecords) :
       \E update_json \in BOOLEAN, skip_if_exists \in BOOLEAN :
            helper' = [pc |-> "done", op |-> "enhance_existing_cards", rows |-> json_files,
                       delay |-> 2, update_json |-> update_json, skip_if_exists |-> skip_if_exists,
                       out |-> enhance_existing_cards(json_files, update_json, skip_if_exists)]
    /\ UNCHANGED <<heap, template, template_file, cards, last, calls, stitch, deck, again, overlay, batch, auto, schema, gui>>

\* an empty list raises ValueError("No cards provided") before the loop
GenerateAiArtwork ==
    /\ helper.pc = "idle"
    /\ \E cards_data \in ItemLists({"saved", "failed"}, MaxRecords) \ {<<>>} :
            helper' = [pc |-> "done", op |-> "generate_ai_artwork", rows |-> cards_data,
                       delay |-> 2, out |-> generate_ai_artwork(cards_data)]
    /\ UNCHANGED <<heap, template, template_file, cards, last, calls, stitch, deck, again, overlay, batch, auto, schema, gui>>

NextHelpers ==
    \/ GenerateFromExcel
    \/ GenerateCardsBatch
    \/ BatchGenerateCardArt
    \/ EnhanceExistingCards
    \/ GenerateAiArtwork

SpecHelpers == InitStitch /\ [][NextHelpers]_vars

\* the files a batch generation left in the output directory
FilesWritten == { helper.out.writes[i] : i \in 1..Len(helper.out.writes) }

\* what a generation run reports as its number of successes
ReportedSuccesses ==
    IF helper.op = "generate_from_excel" THEN helper.out.success_count
    ELSE helper.out.successful

\* C21: after generate_from_excel or generate_cards_batch processed a batch in
\* which k records succeeded, k distinct files exist in the output directory
\* and the reported success count equals the number of files.
C21_OneFilePerSuccess ==
    (helper.pc = "done" /\ helper.op \in {"generate_from_excel", "generate_cards_batch"}) =>
        Cardinality(FilesWritten) = ReportedSuccesses

\* C22: a batch helper calls the AI image collaborator serially and in input
\* order, and between the end of one invocation and the start of the next
\* the fixed delay has elapsed, whatever happened to the item in between.
C22_DelayBetweenCalls ==
    (helper.pc = "done" /\ helper.op \in {"batch_generate_card_art", "enhance_existing_cards", "generate_ai_artwork"}) =>
        \A k \in 1..(Len(helper.out.calls) - 1) :
            /\ helper.out.calls[k].item < helper.out.calls[k + 1].item
            /\ helper.out.calls[k].end + helper.delay <= helper.out.calls[k + 1].start

\* a card the input schema of generate_cards_batch accepts: card_name and
\* class_type are present and are strings
WellFormedCard(c) == c.card_name \notin {Absent, NotAString} /\ c.class_type # NotAString

\* C24: the summary of generate_cards_batch has successful + failed =
\* total_cards = len(results) and results[i].index = i in input order; a card
\* succeeds exactly when it is well formed and the template loads, whatever
\* happened to the cards before it; so with every card well formed and the
\* template loading, successful = total_cards.
C24_BatchSummary ==
    (helper.pc = "done" /\ helper.op = "generate_cards_batch") =>
        LET s == helper.out
        IN  /\ s.total_cards = Len(helper.rows)
            /\ s.total_cards = Len(s.results)
            /\ s.successful + s.failed = s.total_cards
            /\ \A i \in 1..Len(s.results) :
                /\ s.results[i].index = i - 1
                /\ (s.results[i].status = "success")
                        <=> (helper.template_loads /\ WellFormedCard(helper.rows[i]))
                /\ (s.results[i].status = "success") =>
                        s.results[i].output_file = safe_name(helper.rows[i].card_name) \o ".json"
            /\ (helper.template_loads /\ \A i \in 1..Len(helper.rows) : WellFormedCard(helper.rows[i]))
                    => s.successful = s.total_cards

\* a batch of three whose second card has no card_name: the third is generated
C24_Witness ==
    /\ helper.pc = "done" /\ helper.op = "generate_cards_batch"
    /\ Len(helper.rows) = 3
    /\ helper.rows[2].card_name = Absent
    /\ helper.out.results[2].status = "error"
    /\ helper.out.results[3].status = "success"
    /\ helper.out.successful = 2 /\ helper.out.failed = 1

-----------------------------------------------------------------------------
(* The card schema and the MCP tool update_card_schema.  A schema is
   [fields, card_types, version]; fields maps a field name to its
   configuration, a dict with some of the keys type, required, default and
   values (the description texts are left out).  schema.file is
   card_schema.json, schema.reply the answer of the last call. *)

EmptyDict == <<>>

\* load_card_schema: the stored schema, or the default one if there is no file
DefaultSchema ==
    [fields |->
        [card_name  |-> [type |-> "text", required |-> TRUE],
         card_type  |-> [type |-> "text", required |-> TRUE],
         rules_text |-> [type |-> "text", required |-> TRUE],
         cost       |-> [type |-> "text", required |-> TRUE],
         power      |-> [type |-> "text", required |-> TRUE],
         defense    |-> [type |-> "text", required |-> TRUE],
         art_path   |-> [type |-> "image", required |-> FALSE],
         class_type |-> [type |-> "enum", required |-> TRUE,
                         values |-> <<"ninja", "warrior", "wizard", "ranger", "guardian", "brute",
                                      "mechanologist", "runeblade", "merchant", "illusionist">>],
         artist     |-> [type |-> "text", required |-> FALSE, default |-> "Unknown Artist"],
         year       |-> [type |-> "text", required |-> FALSE, default |-> "2024"]],
     card_types |-> <<"Action - Attack", "Action - Defense", "Hero", "Equipment", "Weapon", "Instant">>,
     version |-> "1.0"]

load_card_schema(file) == IF file.exists THEN file.schema ELSE DefaultSchema

\* d[key] = value on a dict, del d[key], d.update(other)
DictSet(d, key, value) == [k \in DOMAIN d \cup {key} |-> IF k = key THEN value ELSE d[k]]
DictDel(d, key) == [k \in DOMAIN d \ {key} |-> d[k]]
DictUpdate(d, other) == [k \in DOMAIN d \cup DOMAIN other |-> IF k \in DOMAIN other THEN other[k] ELSE d[k]]

\* value in a list
InList(value, list) == \E i \in 1..Len(list) : list[i] = value

\* call_tool, name == "update_card_schema": the schema after the action and
\* the message, or the error raised.  Absent is an argument not given.
update_card_schema(loaded, action, field_name, field_config, value) ==
    LET fields == loaded.fields
        error == [raised |-> TRUE]
        done(s, message) == [raised |-> FALSE, schema |-> s, message |-> message]
    IN  CASE action = "add_field" ->
                IF field_name = Absent THEN error
                ELSE done([loaded EXCEPT !.fields = DictSet(fields, field_name, field_config)],
                          "Added field: " \o field_name)
          [] action = "modify_field" ->
                IF field_name = Absent \/ field_name \notin DOMAIN fields THEN error
                ELSE done([loaded EXCEPT !.fields =
                                DictSet(fields, field_name, DictUpdate(fields[field_name], field_config))],
                          "Modified field: " \o field_name)
          [] action = "remove_field" ->
                IF field_name = Absent \/ field_name \notin DOMAIN fields THEN error
                ELSE done([loaded EXCEPT !.fields = DictDel(fields, field_name)],
                          "Removed field: " \o field_name)
          [] action = "add_card_type" ->
                IF value = Absent THEN error
                ELSE done(IF InList(value, loaded.card_types) THEN loaded
                          ELSE [loaded EXCEPT !.card_types = Append(@, value)],
                          "Added card type: " \o value)
          [] action = "add_class_value" ->
                IF value = Absent THEN error
                ELSE done(IF /\ "class_type" \in DOMAIN fields
                             /\ "values" \in DOMAIN fields["class_type"]
                             /\ ~InList(value, fields["class_type"]["values"])
                          THEN [loaded EXCEPT !.fields = DictSet(fields, "class_type",
                                    DictSet(fields["class_type"], "values",
                                            Append(fields["class_type"]["values"], value)))]
                          ELSE loaded,
                          "Added class value: " \o value)
          [] OTHER -> error

\* the arguments the calls are drawn from
SchemaActions == {"add_field", "modify_field", "remove_field", "add_card_type", "add_class_value", "rename_field"}
FieldConfigs == {EmptyDict, [type |-> "enum", values |-> <<"bard", "bard">>]}

\* One call of update_card_schema: load, act, save (save_card_schema reports
\* a failed write by returning False, which the tool ignores), reply.
UpdateCardSchema ==
    \E action \in SchemaActions, field_name \in {Absent, "class_type", "rarity"} :
    \E field_config \in FieldConfigs, value \in {Absent, "bard", "ninja"}, saved \in BOOLEAN :
    \E r \in {update_card_schema(load_card_schema(schema.file), action, field_name, field_config, value)} :
        /\ schema' =
            IF r.raised
            THEN [file |-> schema.file,
                  reply |-> [status |-> "error", action |-> action, value |-> value]]
            ELSE [file |-> IF saved THEN [exists |-> TRUE, schema |-> r.schema] ELSE schema.file,
                  reply |-> [status |-> "success", action |-> action, value |-> value,
                             message |-> r.message, updated_schema |-> r.schema]]
        /\ UNCHANGED <<heap, template, template_file, cards, last, calls, stitch, deck, again, overlay, batch, auto, helper, gui>>

NextSchema == UpdateCardSchema

SpecSchema == InitStitch /\ [][NextSchema]_vars

\* value is in s.fields.class_type.values, exactly once
ClassValueOnce(s, value) ==
    /\ "class_type" \in DOMAIN s.fields
    /\ "values" \in DOMAIN s.fields["class_type"]
    /\ Cardinality({ i \in 1..Len(s.fields["class_type"]["values"]) :
                        s.fields["class_type"]["values"][i] = value }) = 1

\* C25: whenever update_card_schema with action add_class_value and a value v
\* answers with status success ("Added class value: v"), v is in
\* fields.class_type.values exactly once, in the schema returned and in the
\* schema stored, whatever calls came before.
C25_ClassValueAdded ==
    (schema.reply.status = "success" /\ schema.reply.action = "add_class_value") =>
        /\ ClassValueOnce(schema.reply.updated_schema, schema.reply.value)
        /\ schema.file.exists
        /\ ClassValueOnce(schema.file.schema, schema.reply.value)

-----------------------------------------------------------------------------
(* The GUI's background tasks.  gui.threads are the threads started so far;
   a thread is "running" its task body, then has "completed" or "raised"
   (the try block or the except block has set the status bar), and has
   "ended" once its finally block has run.  gui.requests counts the button
   presses and gui.last_request is the last of them.  A handler runs on the
   Tk main thread from its first to its last statement; the steps of a task
   interleave with handlers. *)

\* a handler without its first check (not the code)
run_request_unguarded(self, op, valid) ==
    LET asked == [self EXCEPT !.requests = @ + 1]
    IN  IF ~valid
        THEN [asked EXCEPT !.last_request = [op |-> op, valid |-> valid, started |-> FALSE]]
        ELSE [asked EXCEPT !.is_processing = TRUE,
                           !.status_bar = "running " \o op,
                           !.threads = Append(@, [op |-> op, pc |-> "running"]),
                           !.last_request = [op |-> op, valid |-> valid, started |-> TRUE]]

\* run_basic_generation, run_import, run_stitch, run_ai_generation:
\*   if self.is_processing: showwarning; return
\*   if the inputs are not valid: showerror; return
\*   self.is_processing = True; self.status_bar.config(...);
\*   threading.Thread(target=task, daemon=True).start()
run_request(self, op, valid) ==
    LET asked == [self EXCEPT !.requests = @ + 1]
    IN  IF self.is_processing \/ ~valid
        THEN [asked EXCEPT !.last_request = [op |-> op, valid |-> valid, started |-> FALSE]]
        ELSE [asked EXCEPT !.is_processing = TRUE,
                           !.status_bar = "running " \o op,
                           !.threads = Append(@, [op |-> op, pc |-> "running"]),
                           !.last_request = [op |-> op, valid |-> valid, started |-> TRUE]]

GuiFrame == UNCHANGED <<heap, template, template_file, cards, last, calls, stitch, deck, again, overlay, batch, auto, helper, schema>>

RunBasicGeneration ==
    /\ gui.requests < MaxRequests
    /\ \E valid \in BOOLEAN : gui' = run_request(gui, "basic_generation", valid)
    /\ GuiFrame

RunImport ==
    /\ gui.requests < MaxRequests
    /\ \E valid \in BOOLEAN : gui' = run_request(gui, "import", valid)
    /\ GuiFrame

RunStitch ==
    /\ gui.requests < MaxRequests
    /\ \E valid \in BOOLEAN : gui' = run_request(gui, "stitch", valid)
    /\ GuiFrame

RunAiGeneration ==
    /\ gui.requests < MaxRequests
    /\ \E valid \in BOOLEAN : gui' = run_request(gui, "ai_generation", valid)
    /\ GuiFrame

\* task(): the try block runs to its end, or raises and the except block runs
TaskBody ==
    /\ \E i \in 1..Len(gui.threads), raised \in BOOLEAN :
        /\ gui.threads[i].pc = "running"
        /\ gui' = [gui EXCEPT !.threads[i].pc = IF raised THEN "raised" ELSE "completed",
                              !.status_bar = (IF raised THEN "failed " ELSE "done ") \o gui.threads[i].op]
    /\ GuiFrame

\* task(): finally: self.is_processing = False, and the thread ends
TaskFinally ==
    /\ \E i \in 1..Len(gui.threads) :
        /\ gui.threads[i].pc \in {"completed", "raised"}
        /\ gui' = [gui EXCEPT !.threads[i].pc = "ended " \o @,
                              !.is_processing = FALSE]
    /\ GuiFrame

NextGui ==
    \/ RunBasicGeneration
    \/ RunImport
    \/ RunStitch
    \/ RunAiGeneration
    \/ TaskBody
    \/ TaskFinally

SpecGui == InitStitch /\ [][NextGui]_vars

\* the threads whose task has not ended
LiveThreads == { i \in 1..Len(gui.threads) : gui.threads[i].pc \in {"running", "completed", "raised"} }

\* C26: at most one background task runs at a time and is_processing is true
\* exactly while one has not ended (so it is false again after a task that
\* completed and after one that raised); a request made while is_processing
\* is true starts no thread and changes neither is_processing nor the status
\* bar; a valid request made while it is false starts its task.
C26_OneTaskAtATime ==
    /\ [](Cardinality(LiveThreads) <= 1 /\ (gui.is_processing <=> LiveThreads # {}))
    /\ [][gui'.requests # gui.requests =>
            /\ gui.is_processing =>
                    /\ gui'.threads = gui.threads
                    /\ gui'.is_processing = gui.is_processing
                    /\ gui'.status_bar = gui.status_bar
                    /\ ~gui'.last_request.started
            /\ (~gui.is_processing /\ gui'.last_request.valid) =>
                    /\ gui'.last_request.started
                    /\ Len(gui'.threads) = Len(gui.threads) + 1
                    /\ gui'.is_processing]_vars

\* a first task raised and ended, a second one was accepted and is running,
\* and a third, valid request was turned away
C26_Witness ==
    /\ Len(gui.threads) = 2
    /\ gui.threads[1].pc = "ended raised"
    /\ gui.threads[2].pc = "running"
    /\ gui.is_processing
    /\ gui.last_request.valid /\ ~gui.last_request.started


====
